---------------------------- MODULE Spec2Model ----------------------------
(***************************************************************************)
(* The client side of the EDA web tool: the upload page (drop zone, file   *)
(* input, analyze button, report download), its first version with a plain *)
(* fetch, and the summary page (initial summary, upload-and-refresh,       *)
(* cards).  The server is an external collaborator: each request it is     *)
(* sent settles with one of a bounded set of outcomes.                     *)
(***************************************************************************)
EXTENDS Integers, Sequences, FiniteSets, TLC

VARIABLES
  page,             \* which document the browser shows
  calls,            \* the asynchronous operations awaiting a network outcome
  nextId,           \* user events handled so far in this session, plus one
  onLine,           \* navigator.onLine
  currentSummary,   \* upload page: let currentSummary
  currentFilename,  \* upload page: let currentFilename
  inputFiles,       \* files[0] of the page's file input (0: none selected)
  errorText,        \* upload page: errorAlert.textContent
  errorHidden,      \* upload page: errorAlert has class d-none
  loadingHidden,    \* upload page: loading has class d-none
  resultsHidden,    \* upload page: results has class d-none
  reportWired,      \* upload page: downloadBtn.onclick is set
  dom,              \* the rendered elements of the page
  sp,               \* summary page: control state of init() and its widgets
  last              \* the handler that ran last, with its input and result

vars == <<page, calls, nextId, onLine, currentSummary, currentFilename,
          inputFiles, errorText, errorHidden, loadingHidden, resultsHidden,
          reportWired, dom, sp, last>>

-----------------------------------------------------------------------------
(* Bounds of the model.                                                    *)

\* user events (drops, selections, clicks) handled per session
MaxOps == 2
\* largest retry count a direct call of a fetch helper is given
MaxRetries == 2

-----------------------------------------------------------------------------
(* JavaScript values.  Every value is a record tagged with its type, so    *)
(* that truthiness and typeof are computed the way the runtime does.       *)

Undef == [t |-> "undefined"]
JNull == [t |-> "null"]
JStr(s) == [t |-> "string", s |-> s]
JNum(n) == [t |-> "number", n |-> n]
SyntaxError == [t |-> "SyntaxError"]

Truthy(v) ==
  CASE v.t = "undefined" -> FALSE
    [] v.t = "null" -> FALSE
    [] v.t = "string" -> v.s # ""
    [] v.t = "number" -> v.n # 0
    [] v.t = "boolean" -> v.b
    [] OTHER -> TRUE

\* a || b
Or(a, b) == IF Truthy(a) THEN a ELSE b


JArr(a) == [t |-> "array", a |-> a]
JMap(m) == [t |-> "object", m |-> m]

\* obj[key] of a per-column map: undefined when the key is absent
Get(obj, key) == IF key \in DOMAIN obj.m THEN obj.m[key] ELSE Undef

\* String(v) and `${v}` for the values the pages interpolate
Str(v) ==
  CASE v.t = "undefined" -> "undefined"
    [] v.t = "null" -> "null"
    [] v.t = "string" -> v.s
    [] v.t = "number" -> ToString(v.n)
    [] OTHER -> "[object Object]"

-----------------------------------------------------------------------------
(* The dataset summaries the server can return (spec.md, section 3).       *)

SummaryIds == {"S1", "S2", "S3", "S4"}

\* S1: every field present; column a has no key in missing_values, column b
\* none in data_types, and neither has one in unique_counts.
\* S2: every field present, 1000 rows.
\* S3: only shape, columns, data_types, missing_values and unique_counts.
\* S4: the empty object.
SummaryOf(k) ==
  CASE k = "S1" ->
         [t |-> "object", id |-> "S1",
          shape |-> JArr(<<100, 2>>), columns |-> JArr(<<"a", "b">>),
          data_types |-> JMap([a |-> JStr("int64")]),
          missing_values |-> JMap([b |-> JNum(2)]),
          unique_counts |-> JMap(<<>>),
          descriptive_stats |->
            JMap([a |-> JMap([mean |-> JNum(0), median |-> JNum(3)])]),
          file_info |-> [t |-> "object", filename |-> "data.csv",
                         size_readable |-> "9.0 MB"],
          sample_data |-> JArr(<<[a |-> JNum(1), b |-> JNull]>>),
          memory_usage |-> JStr("1.6 KB")]
    [] k = "S2" ->
         [t |-> "object", id |-> "S2",
          shape |-> JArr(<<1000, 1>>), columns |-> JArr(<<"a">>),
          data_types |-> JMap([a |-> JStr("object")]),
          missing_values |-> JMap([a |-> JNum(0)]),
          unique_counts |-> JMap([a |-> JNum(7)]), descriptive_stats |-> Undef,
          file_info |-> [t |-> "object", filename |-> "book.xlsx",
                         size_readable |-> "10.0 MB"],
          sample_data |-> JArr(<<[a |-> JStr("<x>")]>>),
          memory_usage |-> JStr("7.8 KB")]
    [] k = "S3" ->
         [t |-> "object", id |-> "S3",
          shape |-> JArr(<<100, 3>>), columns |-> JArr(<<"a", "b", "c">>),
          data_types |-> JMap([a |-> JStr("int64")]),
          missing_values |-> JMap(<<>>),
          unique_counts |-> JMap(<<>>), descriptive_stats |-> Undef,
          file_info |-> Undef, sample_data |-> Undef, memory_usage |-> Undef]
    [] OTHER ->
         [t |-> "object", id |-> "S4",
          shape |-> Undef, columns |-> Undef, data_types |-> Undef,
          missing_values |-> Undef, unique_counts |-> Undef,
          descriptive_stats |-> Undef,
          file_info |-> Undef, sample_data |-> Undef, memory_usage |-> Undef]

Summaries == {SummaryOf(k) : k \in SummaryIds}

\* A DatasetSummary as section 3 of spec.md defines it: every field present,
\* one column name per counted column, the maps keyed by columns only.
ValidSummary(s) ==
  /\ s.t = "object"
  /\ s.shape.t = "array" /\ s.columns.t = "array"
  /\ Len(s.columns.a) = s.shape.a[2]
  /\ \A i \in 1..3 :
       LET f == <<s.data_types, s.missing_values, s.unique_counts>>[i]
       IN  f.t = "object" /\
           DOMAIN f.m \subseteq {s.columns.a[j] : j \in 1..Len(s.columns.a)}
  /\ s.file_info.t = "object"
  /\ s.sample_data.t = "array"

-----------------------------------------------------------------------------
(* Response bodies.  A body is its raw text; JSONParse and Trim are the    *)
(* runtime's functions on the texts the server sends.                      *)

OkText(k) == "{\"success\":true,\"summary\":" \o k \o "}"
TextFailError == "{\"success\":false,\"error\":\"Unsupported file\"}"
TextFail == "{\"success\":false}"
TextDiskFull == "{\"error\":\"disk full\"}"
TextPlain == " Internal Server Error\n"
TextBlank == "  "
TextQuoted == "\"" \o OkText("S1") \o "\""
TextCharts == "{\"success\":true,\"charts\":P1}"
TextReport == "<html>EDA report</html>"

Payload(success, summary, error, message) ==
  [t |-> "object", success |-> success, summary |-> summary,
   error |-> error, message |-> message, charts |-> Undef]

JTrue == [t |-> "boolean", b |-> TRUE]
JFalse == [t |-> "boolean", b |-> FALSE]

\* JSON.parse(text)
JSONParse(text) ==
  CASE text \in {OkText(k) : k \in SummaryIds} ->
         Payload(JTrue, SummaryOf(CHOOSE k \in SummaryIds : OkText(k) = text), Undef, Undef)
    [] text = TextFailError -> Payload(JFalse, Undef, JStr("Unsupported file"), Undef)
    [] text = TextFail -> Payload(JFalse, Undef, Undef, Undef)
    [] text = TextDiskFull -> Payload(Undef, Undef, JStr("disk full"), Undef)
    [] text = TextQuoted -> JStr(OkText("S1"))
    [] text = TextCharts ->
         [Payload(JTrue, Undef, Undef, Undef) EXCEPT !.charts = [t |-> "object", id |-> "P1"]]
    [] OTHER -> SyntaxError

\* a helper that does not trim the text
TrimNot(text) == text

\* text.trim()
Trim(text) ==
  CASE text = TextPlain -> "Internal Server Error"
    [] text = TextBlank -> ""
    [] OTHER -> text


-----------------------------------------------------------------------------
(* What one `await fetch(...)` can settle with: a response (status line    *)
(* and body), the abort of the attempt's timer, or a network failure.      *)

Response(status, statusText, text) ==
  [t |-> "response", status |-> status, statusText |-> statusText, text |-> text]
Aborted == [t |-> "abort", status |-> 0, statusText |-> "", text |-> ""]
NetworkFailure == [t |-> "neterr", status |-> 0, statusText |-> "", text |-> ""]

\* the outcomes of a /upload request the pages are explored with
UploadOutcomes ==
  {Response(200, "OK", OkText(k)) : k \in SummaryIds}
    \cup {Response(200, "OK", TextFailError), Response(200, "OK", TextFail),
          Response(500, "Internal Server Error", TextDiskFull),
          Response(500, "Internal Server Error", TextBlank),
          Aborted, NetworkFailure}

\* the outcomes a direct call of fetchWithTimeoutAndRetries is explored with
JsonOutcomes ==
  UploadOutcomes
    \cup {Response(200, "OK", TextPlain), Response(200, "OK", ""),
          Response(200, "OK", TextQuoted),
          Response(500, "Internal Server Error", TextPlain),
          Response(500, "Internal Server Error", "")}

\* res.ok
ResOk(o) == o.status >= 200 /\ o.status <= 299

Return(v) == [t |-> "return", v |-> v, err |-> Undef]
Throw(name, message) ==
  [t |-> "throw", v |-> Undef, err |-> [name |-> name, message |-> message]]

\* what the rejected fetch promise carries
FetchRejection(o) ==
  IF o.t = "abort" THEN Throw("AbortError", "The user aborted a request.")
  ELSE Throw("TypeError", "Failed to fetch")

ServerErrorText(o) == "Server error " \o ToString(o.status) \o " " \o o.statusText

\* err.message.toLowerCase().includes('timeout'), on the messages that occur
IncludesTimeout(message) == message \in {"Gateway Timeout", "timeout"}

\* lines 218-223: the inner try of one attempt, after `await res.text()`
InnerTry(o) ==
  LET json == IF o.text # "" THEN JSONParse(o.text) ELSE JNull
  IN  IF json.t = "SyntaxError" THEN Throw("SyntaxError", "Unexpected token")
      ELSE IF ~ResOk(o)
        THEN Throw("Error",
                   IF json.t = "object" /\ Truthy(Or(json.error, json.message))
                     THEN Str(Or(json.error, json.message))
                     ELSE ServerErrorText(o))
        ELSE Return(json)

\* lines 224-230: the catch of the inner try, which also catches the error the
\* inner try throws for a response that is not ok
InnerCatch(o) ==
  IF ~ResOk(o)
    THEN Throw("Error", IF Trim(o.text) # "" THEN Trim(o.text) ELSE ServerErrorText(o))
    ELSE Return(JStr(o.text))

\* lines 212-230: one attempt of fetchWithTimeoutAndRetries
AttemptJson(o) ==
  IF o.t # "response" THEN FetchRejection(o)
  ELSE IF InnerTry(o).t = "throw" THEN InnerCatch(o) ELSE InnerTry(o)

\* lines 248-256: one attempt of fetchBlobWithTimeoutAndRetries
AttemptBlob(o) ==
  IF o.t # "response" THEN FetchRejection(o)
  ELSE IF ~ResOk(o)
    THEN Throw("Error", IF o.text # "" THEN o.text ELSE ServerErrorText(o))
    ELSE Return([t |-> "blob", of |-> o.text])

Attempt(kind, o) == IF kind = "json" THEN AttemptJson(o) ELSE AttemptBlob(o)

\* a loop that gives up after the first failed attempt
RetryNever(err, attempt, retries) == FALSE

\* a loop whose bound is off by one
RetryOnceMore(err, attempt, retries) == attempt <= retries

\* lines 231-237 and 257-263: whether the loop goes on to another attempt
\* after attempt number `attempt` (from 0) threw err
RetryAfter(err, attempt, retries) ==
  \/ (err.name = "AbortError" \/ IncludesTimeout(err.message)) /\ attempt < retries
  \/ attempt < retries


-----------------------------------------------------------------------------
(* Files the user can drop or select.                                      *)

File(name, chars, size) == [name |-> name, chars |-> chars, size |-> size]

\* 10 * 1024 * 1024
MaxFileSize == 10485760

FileOf(f) ==
  CASE f = 1 -> File("a.csv", <<"a", ".", "c", "s", "v">>, 9437184)
    [] f = 2 -> File("B.XLSX", <<"B", ".", "X", "L", "S", "X">>, MaxFileSize)
    [] f = 3 -> File("x.txt", <<"x", ".", "t", "x", "t">>, 1024)
    [] OTHER -> File("b.csv", <<"b", ".", "c", "s", "v">>, 11534336)

FileIds == 1..4

\* the i flag: the letters of the pattern match either case
Lower(ch) ==
  CASE ch = "C" -> "c" [] ch = "S" -> "s" [] ch = "V" -> "v"
    [] ch = "X" -> "x" [] ch = "L" -> "l" [] OTHER -> ch

\* file.name.match(/\.(csv|xlsx)$/i)
MatchesCsvXlsx(chars) ==
  \E i \in 1..Len(chars) :
    /\ chars[i] = "."
    /\ [j \in 1..(Len(chars) - i) |-> Lower(chars[i + j])]
         \in {<<"c", "s", "v">>, <<"x", "l", "s", "x">>}

MsgType == "Please upload a .csv or .xlsx file."
MsgSize == "File size must be under 10MB."
MsgOffline == "No network connection. Please check your internet and try again."
MsgUnexpected == "Unexpected server response"
MsgSelect == "Please select a file before viewing the full summary."

\* a handleFiles without the check of the file's name
VerdictBySizeOnly(f) ==
  IF FileOf(f).size > MaxFileSize THEN "size" ELSE "upload"

\* lines 36-48: what handleFiles decides for files[0]
HandleFilesVerdict(f) ==
  IF ~MatchesCsvXlsx(FileOf(f).chars) THEN "type"
  ELSE IF FileOf(f).size > MaxFileSize THEN "size"
  ELSE "upload"

-----------------------------------------------------------------------------
(* Rendering on the upload page.                                           *)

Pad3(n) ==
  IF n < 10 THEN "00" \o ToString(n)
  ELSE IF n < 100 THEN "0" \o ToString(n) ELSE ToString(n)

\* n.toLocaleString() in the en-US locale, for n < 1000000
HumanNumber(n) ==
  IF n < 1000 THEN ToString(n)
  ELSE ToString(n \div 1000) \o "," \o Pad3(n % 1000)

RECURSIVE SumMissing(_, _)
\* Object.values(m).reduce((s, v) => s + (Number(v) || 0), 0)
SumMissing(m, keys) ==
  IF keys = {} THEN 0
  ELSE LET k == CHOOSE x \in keys : TRUE
       IN  (IF m[k].t = "number" THEN m[k].n ELSE 0) + SumMissing(m, keys \ {k})

TotalMissing(s) ==
  IF s.missing_values.t = "object"
    THEN SumMissing(s.missing_values.m, DOMAIN s.missing_values.m)
    ELSE 0

\* escapeHtml(String(v)), on the cell values that occur
EscapeHtml(str) == IF str = "<x>" THEN "&lt;x&gt;" ELSE str

BlankDom ==
  [cardColumns |-> "", cardRows |-> "", cardMissing |-> "", cardSize |-> "",
   summaryInfo |-> <<>>, columnsTable |-> <<>>, sampleTable |-> <<>>]

\* part_004 lines 98-112: the cards, inside their own try
UploadCards(s, d) ==
  IF s.t # "object" THEN d
  ELSE [d EXCEPT
         !.cardColumns =
            IF s.shape.t = "array" THEN ToString(s.shape.a[2])
            ELSE IF s.columns.t = "array" THEN ToString(Len(s.columns.a)) ELSE "-",
         !.cardRows = IF s.shape.t = "array" THEN HumanNumber(s.shape.a[1]) ELSE "-",
         !.cardMissing = HumanNumber(TotalMissing(s)),
         !.cardSize = IF s.file_info.t = "object" THEN s.file_info.size_readable ELSE "-"]

Cols(s) == s.columns.a

\* lines 121-138: one row of the columns table per column
ColumnRows(s) ==
  [i \in 1..Len(Cols(s)) |->
     <<Cols(s)[i], Str(Get(s.data_types, Cols(s)[i])),
       Str(Get(s.missing_values, Cols(s)[i])), Str(Get(s.unique_counts, Cols(s)[i]))>>]

\* lines 144-152: one row of cells per sample row
SampleRows(s) ==
  [r \in 1..Len(s.sample_data.a) |->
     [i \in 1..Len(Cols(s)) |->
        LET row == s.sample_data.a[r]
            val == IF Cols(s)[i] \in DOMAIN row THEN row[Cols(s)[i]] ELSE Undef
        IN  IF val.t \in {"null", "undefined"} THEN "<em>null</em>"
            ELSE EscapeHtml(Str(val))]]

Rendered(d, wired, threw) == [dom |-> d, wired |-> wired, threw |-> threw]

\* part_004 lines 96-190: displayResults(summary), from the dom d; the result
\* holds what was rendered before the first uncaught TypeError, if any
DisplayResults(s, d, wired) ==
  LET d1 == UploadCards(s, d)
      d2 == [d1 EXCEPT !.summaryInfo =
               <<ToString(s.shape.a[1]), ToString(s.shape.a[2]), Str(s.memory_usage)>>]
      d3 == [d2 EXCEPT !.columnsTable = ColumnRows(s)]
      d4 == [d3 EXCEPT !.sampleTable = <<Cols(s), SampleRows(s)>>]
  IN  IF s.t # "object"
        THEN Rendered(d1, wired, "Cannot read properties of undefined (reading 'shape')")
      ELSE IF s.shape.t # "array"
        THEN Rendered(d1, wired, "Cannot read properties of undefined (reading '0')")
      ELSE IF s.columns.t # "array"
        THEN Rendered(d2, wired, "Cannot read properties of undefined (reading 'forEach')")
      ELSE IF Len(Cols(s)) > 0 /\
              (s.data_types.t # "object" \/ s.missing_values.t # "object"
                 \/ s.unique_counts.t # "object")
        THEN Rendered(d2, wired,
                      "Cannot read properties of undefined (reading '" \o Cols(s)[1] \o "')")
      ELSE IF s.sample_data.t # "array"
        THEN Rendered(d3, wired, "Cannot read properties of undefined (reading 'forEach')")
      ELSE Rendered(d4, TRUE, "")


-----------------------------------------------------------------------------
(* Rendering on the summary page.                                          *)

\* a populateCards that reads the two entries of shape the other way round
PopulateCardsSwapped(s, d) ==
  IF s.shape.t # "array"
    THEN Rendered(d, FALSE, "Cannot read properties of undefined (reading '1')")
    ELSE Rendered([d EXCEPT
                    !.cardColumns = ToString(s.shape.a[1]),
                    !.cardRows = HumanNumber(s.shape.a[2]),
                    !.cardMissing = HumanNumber(TotalMissing(s)),
                    !.cardSize = IF s.file_info.t = "object"
                                   THEN s.file_info.size_readable ELSE "-"],
                  FALSE, "")

\* part_005 lines 18-24: populateCards(summary), from the dom d
PopulateCards(s, d) ==
  IF s.shape.t # "array"
    THEN Rendered(d, FALSE, "Cannot read properties of undefined (reading '1')")
    ELSE Rendered([d EXCEPT
                    !.cardColumns = ToString(s.shape.a[2]),
                    !.cardRows = HumanNumber(s.shape.a[1]),
                    !.cardMissing = HumanNumber(TotalMissing(s)),
                    !.cardSize = IF s.file_info.t = "object"
                                   THEN s.file_info.size_readable ELSE "-"],
                  FALSE, "")

\* summary.f ? summary.f[col] || dflt : dflt
GetOr(f, col, dflt) ==
  IF f.t = "object" /\ Truthy(Get(f, col)) THEN Get(f, col) ELSE dflt

\* Number(v).toFixed(2) of a whole number
ToFixed2(v) == ToString(v.n) \o ".00"

\* part_005 lines 45-47, 54-56 and 99, 104-106: the cell of statistic name
\* of column col
StatCell(s, col, name) ==
  LET stats == GetOr(s.descriptive_stats, col, JMap(<<>>))
  IN  IF Truthy(Get(stats, name)) THEN ToFixed2(Get(stats, name)) ELSE "N/A"

\* a summaryToRows that leaves out the first column
SummaryToRowsFromSecond(s) ==
  LET cols == IF s.columns.t = "array" THEN s.columns.a ELSE <<>>
  IN  [i \in 1..(Len(cols) - 1) |->
         <<cols[i + 1], Str(GetOr(s.data_types, cols[i + 1], JStr(""))),
           Str(GetOr(s.missing_values, cols[i + 1], JNum(0))),
           Str(GetOr(s.unique_counts, cols[i + 1], JNum(0))),
           StatCell(s, cols[i + 1], "mean"), StatCell(s, cols[i + 1], "median"),
           StatCell(s, cols[i + 1], "std_dev")>>]

\* part_005 lines 35-57 and 93-110: the rows buildTable and summaryToRows make
SummaryToRows(s) ==
  LET cols == IF s.columns.t = "array" THEN s.columns.a ELSE <<>>
  IN  [i \in 1..Len(cols) |->
         <<cols[i], Str(GetOr(s.data_types, cols[i], JStr(""))),
           Str(GetOr(s.missing_values, cols[i], JNum(0))),
           Str(GetOr(s.unique_counts, cols[i], JNum(0))),
           StatCell(s, cols[i], "mean"), StatCell(s, cols[i], "median"),
           StatCell(s, cols[i], "std_dev")>>]

\* Number(str) of a cell of the missing column
NumberOf(str) ==
  IF \E n \in 0..9 : ToString(n) = str
    THEN CHOOSE n \in 0..9 : ToString(n) = str
    ELSE 0

\* part_005 lines 344-351 (and 428): the widget is created with
\* order: [[2, 'desc']], so each draw shows the rows by their missing cell,
\* largest first, rows with equal cells in the order they were added
OrderByMissingDesc(rows) ==
  LET Before(i, j) ==
        \/ NumberOf(rows[i][3]) > NumberOf(rows[j][3])
        \/ NumberOf(rows[i][3]) = NumberOf(rows[j][3]) /\ i < j
      Rank(i) == 1 + Cardinality({j \in 1..Len(rows) : Before(j, i)})
  IN  [p \in 1..Len(rows) |-> rows[CHOOSE i \in 1..Len(rows) : Rank(i) = p]]

\* part_005 lines 59-91: the rows the table shows: the widget's once it
\* exists, and else the plain tbody's
ShownRows(x) ==
  IF x.dataTable THEN OrderByMissingDesc(x.tableRows) ELSE x.tableRows

\* part_005 lines 380-383 and 389: the rows a draw shows under the filters of
\* search: a row passes the missing-values filter when its missing cell is at
\* most the maximum
DrawnRows(x) ==
  SelectSeq(ShownRows(x),
            LAMBDA r : \A i \in DOMAIN x.search :
                         x.search[i].name = "missingFilter" =>
                           NumberOf(r[3]) <= NumberOf(x.search[i].max))

\* part_005 lines 305-313: the options populateTypeFilter adds after the first
TypeOptions(s) ==
  IF s.data_types.t = "object"
    THEN {Str(s.data_types.m[k]) : k \in DOMAIN s.data_types.m}
    ELSE {}

\* part_005 lines 113-255: what displayCharts leaves in the charts section
\* once its request has settled with outcome o
DisplayCharts(o, html) ==
  LET payload == IF o.t = "response" /\ ResOk(o) THEN JSONParse(o.text) ELSE SyntaxError
  IN  IF payload.t = "object" /\ Truthy(payload.success)
        THEN [display |-> "block",
              html |-> IF payload.charts.t = "object" THEN payload.charts.id ELSE "none"]
        ELSE [display |-> "none", html |-> html]

\* fetchSummary without its checks of res.ok and payload.success
FetchSummaryUnchecked(o) ==
  LET payload == IF o.t = "response" THEN JSONParse(o.text) ELSE SyntaxError
  IN  IF payload.t = "object" THEN payload.summary ELSE JNull

\* part_005 lines 1-12: what fetchSummary returns for outcome o
FetchSummary(o) ==
  LET payload == IF o.t = "response" /\ ResOk(o) THEN JSONParse(o.text) ELSE SyntaxError
  IN  IF payload.t = "object" /\ Truthy(payload.success) THEN payload.summary ELSE JNull


-----------------------------------------------------------------------------
(* Operations in flight.  A call is one asynchronous operation suspended   *)
(* at an `await fetch(...)`: who made it, for which file, which attempt of *)
(* the retry loop it is in and how the attempt before it ended.            *)

\* the timers left armed when the timer of attempt number attempt is not
\* cleared
ClearTimeoutNot(timers, attempt) == timers

\* part_004 lines 214, 232 and 249, 258: clearTimeout(id) of the attempt
ClearTimeout(timers, attempt) == timers \ {attempt}

\* part_004 lines 208-209 and 244-245: the helpers arm a timer for the
\* attempt they start (timers holds the attempts whose timer is armed); a
\* plain fetch arms none
Call(id, caller, kind, file, retries, arg, before) ==
  [id |-> id, caller |-> caller, kind |-> kind, file |-> file,
   retries |-> retries, attempt |-> 0, prev |-> "none", arg |-> arg,
   before |-> before,
   timers |-> IF caller \in {"uploadFile", "analyze", "report", "direct"}
                THEN {0} ELSE {}]

NoCall == Call(0, "none", "none", 0, 0, "null", <<"null", "null">>)
NoOutcome == [t |-> "none", status |-> 0, statusText |-> "", text |-> ""]
NoResult == [t |-> "none", v |-> Undef, err |-> Undef]

\* what is kept of the handler that ran last: the call it ended (or the file
\* it was given), the outcome and the helper's result it handled, whether it
\* called showError (or set an error status), and how many requests it sent
Event(op, c, o, res, shown) ==
  [op |-> op, call |-> c, o |-> o, res |-> res, shown |-> shown,
   sent |-> Cardinality(calls' \ calls)]

\* the callers that go through fetchWithTimeoutAndRetries or
\* fetchBlobWithTimeoutAndRetries; the others call fetch directly
HelperCallers == {"uploadFile", "analyze", "report", "direct"}

ReportOutcomes ==
  {Response(200, "OK", TextReport),
   Response(500, "Internal Server Error", TextDiskFull),
   Response(500, "Internal Server Error", ""), Aborted, NetworkFailure}

SummaryDataOutcomes ==
  {Response(200, "OK", OkText(k)) : k \in SummaryIds}
    \cup {Response(200, "OK", TextFailError),
          Response(500, "Internal Server Error", TextPlain), NetworkFailure}

ChartsOutcomes ==
  {Response(200, "OK", TextCharts), Response(200, "OK", TextFailError),
   Response(200, "OK", TextPlain),
   Response(500, "Internal Server Error", TextPlain), NetworkFailure}

\* the outcomes the request of call c can settle with; only the helpers arm
\* an abort timer, and an attempt is aborted by its own timer only
OutcomesFor(c) ==
  LET all ==
        CASE c.caller \in {"uploadFile", "analyze"} -> UploadOutcomes
          [] c.caller = "direct" -> IF c.kind = "json" THEN JsonOutcomes ELSE ReportOutcomes
          [] c.caller = "report" -> ReportOutcomes
          [] c.caller = "legacyReport" -> ReportOutcomes \ {Aborted}
          [] c.caller \in {"legacyUpload", "refreshUpload"} -> UploadOutcomes \ {Aborted}
          [] c.caller = "initSummary" -> SummaryDataOutcomes
          [] OTHER -> ChartsOutcomes
  IN  IF c.attempt \in c.timers THEN all ELSE all \ {Aborted}

\* part_004 lines 208-211 and 244-246: the request of a call is made with
\* the signal of an AbortController that a timer aborts; the other calls
\* use fetch with no signal
HasAbortSignal(c) == c.caller \in HelperCallers

OutcomeTag(o) ==
  IF o.t = "response" THEN (IF ResOk(o) THEN "ok" ELSE "notok") ELSE o.t

\* currentSummary and the like hold the summary by its identity
Ref(v) == IF v.t = "object" THEN v.id ELSE v.t

\* the values the upload page holds before an upload starts
Held == <<currentSummary, currentFilename>>

BlankSp ==
  [pc |-> "none", dtLoaded |-> FALSE, dataTable |-> FALSE, status |-> "",
   danger |-> FALSE, disabled |-> FALSE, tableRows |-> <<>>, typeOptions |-> {},
   chartsDisplay |-> "", chartsHtml |-> "", cleanedDisplay |-> "none",
   search |-> <<>>]

\* an entry of $.fn.dataTable.ext.search: a function, with its name and, for
\* the missing-values filter, the maximum it closes over
SearchFilter(name, max) == [name |-> name, max |-> max]

\* a filter some other script of the page has registered before init() runs
OtherFilter == SearchFilter("otherFilter", "")

\* the values typed into #filter-missing ("": the input emptied)
MissingInputs == {"", "0", "1"}

\* a handler that pushes its filter and removes none
SetMissingFilterOnTop(search, max) ==
  IF max = "" THEN SelectSeq(search, LAMBDA f : f.name # "missingFilter")
  ELSE Append(search, SearchFilter("missingFilter", max))

\* part_005 lines 373-388: the list the input handler of #filter-missing
\* leaves in $.fn.dataTable.ext.search for the value max of the input
SetMissingFilter(search, max) ==
  LET kept == SelectSeq(search, LAMBDA f : f.name # "missingFilter")
  IN  IF max = "" THEN kept
      ELSE Append(kept, SearchFilter("missingFilter", max))

pageVars == <<currentSummary, currentFilename, errorText, errorHidden,
              loadingHidden, resultsHidden, reportWired>>

\* DOMContentLoaded of the upload page (either version of its script)
UploadPageLoaded ==
  /\ calls = {}
  /\ currentSummary = "null" /\ currentFilename = "null"
  /\ inputFiles = 0
  /\ errorText = "" /\ errorHidden = TRUE
  /\ loadingHidden = TRUE /\ resultsHidden = TRUE
  /\ reportWired = FALSE
  /\ dom = BlankDom
  /\ sp = BlankSp

\* part_005 lines 315-316 and 475: DOMContentLoaded of the summary page runs
\* init() up to its first await
SummaryPageLoaded(dt) ==
  /\ calls = {Call(0, "initSummary", "json", 0, 0, "null", <<"null", "null">>)}
  /\ currentSummary = "null" /\ currentFilename = "null"
  /\ inputFiles = 0
  /\ errorText = "" /\ errorHidden = TRUE
  /\ loadingHidden = TRUE /\ resultsHidden = TRUE
  /\ reportWired = FALSE
  /\ dom = BlankDom
  /\ sp = [BlankSp EXCEPT !.pc = "loading", !.dtLoaded = dt,
                           !.search = <<OtherFilter>>]

\* a unit test calls one of the two fetch helpers with a retry count
HelperCalled(kind, retries) ==
  /\ calls = {Call(1, "direct", kind, 0, retries, "null", <<"null", "null">>)}
  /\ currentSummary = "null" /\ currentFilename = "null"
  /\ inputFiles = 0
  /\ errorText = "" /\ errorHidden = TRUE
  /\ loadingHidden = TRUE /\ resultsHidden = TRUE
  /\ reportWired = FALSE
  /\ dom = BlankDom
  /\ sp = BlankSp

Init ==
  /\ page \in {"upload", "legacy", "summary", "test"}
  /\ nextId = 1
  /\ onLine \in BOOLEAN
  /\ CASE page = "summary" -> \E dt \in BOOLEAN : SummaryPageLoaded(dt)
       [] page = "test" ->
            \E kind \in {"json", "blob"} : \E r \in 0..MaxRetries : HelperCalled(kind, r)
       [] OTHER -> UploadPageLoaded
  /\ last = [op |-> "load", call |-> NoCall, o |-> NoOutcome, res |-> NoResult,
             shown |-> FALSE, sent |-> Cardinality(calls)]


-----------------------------------------------------------------------------
(* The upload page: part_004, and its first version script.js.             *)

\* the part of the page state a completion handler reads and writes
Cur ==
  [cs |-> currentSummary, cf |-> currentFilename, dom |-> dom,
   wired |-> reportWired, resultsHidden |-> resultsHidden,
   errorText |-> errorText, errorHidden |-> errorHidden, threw |-> "",
   shown |-> FALSE]

\* part_004 lines 192-195: showError(msg)
ShowError(P, msg) ==
  [P EXCEPT !.errorText = msg, !.errorHidden = FALSE, !.shown = TRUE]

\* script.js lines 79-136: the first version of displayResults
LegacyDisplayResults(s, d, wired) ==
  LET d2 == [d EXCEPT !.summaryInfo =
               <<ToString(s.shape.a[1]), ToString(s.shape.a[2]), Str(s.memory_usage)>>]
      d3 == [d2 EXCEPT !.columnsTable = ColumnRows(s)]
      d4 == [d3 EXCEPT !.sampleTable =
               <<Cols(s),
                 [r \in 1..Len(s.sample_data.a) |->
                    [i \in 1..Len(Cols(s)) |->
                       LET row == s.sample_data.a[r]
                           val == IF Cols(s)[i] \in DOMAIN row
                                    THEN row[Cols(s)[i]] ELSE Undef
                       IN  IF val.t = "null" THEN "<em>null</em>" ELSE Str(val)]]>>]
  IN  IF s.t # "object"
        THEN Rendered(d, wired, "Cannot read properties of undefined (reading 'shape')")
      ELSE IF s.shape.t # "array"
        THEN Rendered(d, wired, "Cannot read properties of undefined (reading '0')")
      ELSE IF s.columns.t # "array"
        THEN Rendered(d2, wired, "Cannot read properties of undefined (reading 'forEach')")
      ELSE IF Len(Cols(s)) > 0 /\
              (s.data_types.t # "object" \/ s.missing_values.t # "object"
                 \/ s.unique_counts.t # "object")
        THEN Rendered(d2, wired,
                      "Cannot read properties of undefined (reading '" \o Cols(s)[1] \o "')")
      ELSE IF s.sample_data.t # "array"
        THEN Rendered(d3, wired, "Cannot read properties of undefined (reading 'forEach')")
      ELSE Rendered(d4, TRUE, "")

\* a then-handler that keeps the summary and name of the response handled
\* first
StoreFirstOnly(summary, f, P) ==
  LET R == IF page = "legacy" THEN LegacyDisplayResults(summary, P.dom, P.wired)
           ELSE DisplayResults(summary, P.dom, P.wired)
  IN  [P EXCEPT !.cs = IF P.cs = "null" THEN Ref(summary) ELSE P.cs,
                !.cf = IF P.cs = "null" THEN FileOf(f).name ELSE P.cf,
                !.dom = R.dom, !.wired = R.wired, !.threw = R.threw,
                !.resultsHidden = IF R.threw = "" THEN FALSE ELSE @]

\* a then-handler that stores the summary and not the file's name
StoreSummaryOnly(summary, f, P) ==
  LET R == IF page = "legacy" THEN LegacyDisplayResults(summary, P.dom, P.wired)
           ELSE DisplayResults(summary, P.dom, P.wired)
  IN  [P EXCEPT !.cs = Ref(summary),
                !.dom = R.dom, !.wired = R.wired, !.threw = R.threw,
                !.resultsHidden = IF R.threw = "" THEN FALSE ELSE @]

\* a then-handler that keeps the name of the first file analyzed
StoreKeepingName(summary, f, P) ==
  LET R == IF page = "legacy" THEN LegacyDisplayResults(summary, P.dom, P.wired)
           ELSE DisplayResults(summary, P.dom, P.wired)
  IN  [P EXCEPT !.cs = Ref(summary),
                !.cf = IF P.cf = "null" THEN FileOf(f).name ELSE P.cf,
                !.dom = R.dom, !.wired = R.wired, !.threw = R.threw,
                !.resultsHidden = IF R.threw = "" THEN FALSE ELSE @]

\* part_004 lines 62-65 (and 71-74, script.js 65-68): the summary is stored
\* with the file's name, rendered, and the results panel is shown
StoreAndDisplay(summary, f, P) ==
  LET R == IF page = "legacy" THEN LegacyDisplayResults(summary, P.dom, P.wired)
           ELSE DisplayResults(summary, P.dom, P.wired)
  IN  [P EXCEPT !.cs = Ref(summary), !.cf = FileOf(f).name,
                !.dom = R.dom, !.wired = R.wired, !.threw = R.threw,
                !.resultsHidden = IF R.threw = "" THEN FALSE ELSE @]

\* part_004 lines 59-84: the then-handler of uploadFile, given what
\* fetchWithTimeoutAndRetries returned
UploadThen(data, f, P) ==
  IF data.t = "object" /\ Truthy(data.success) THEN StoreAndDisplay(data.summary, f, P)
  ELSE IF data.t = "string" THEN
    LET parsed == JSONParse(data.s)
        raw == Str(Or(data, JStr(MsgUnexpected)))
    IN  IF parsed.t = "object" /\ Truthy(parsed.success)
          THEN LET Q == StoreAndDisplay(parsed.summary, f, P)
               IN  IF Q.threw # "" THEN [ShowError(Q, raw) EXCEPT !.threw = ""] ELSE Q
        ELSE IF parsed.t = "object"
          THEN ShowError(P, Str(Or(parsed.error, Or(parsed.message, JStr(raw)))))
        ELSE ShowError(P, raw)
  ELSE ShowError(P, IF data.t = "object" /\ Truthy(data.error)
                      THEN Str(data.error) ELSE MsgUnexpected)

\* part_004 lines 85-93: the catch-handler of uploadFile
UploadCatch(P, message) ==
  ShowError(P, IF ~onLine THEN MsgOffline
               ELSE IF message # "" THEN message
               ELSE "Network error. Please try again.")

\* script.js lines 61-76: res.json(), the then-handler and the catch-handler
LegacyUploadSettled(o, f, P) ==
  LET data == IF o.t = "response" /\ o.text # "" THEN JSONParse(o.text) ELSE SyntaxError
      Q == StoreAndDisplay(data.summary, f, P)
  IN  IF data.t = "SyntaxError" THEN ShowError(P, "Network error. Please try again.")
      ELSE IF data.t = "object" /\ Truthy(data.success)
        THEN IF Q.threw # ""
               THEN [ShowError(Q, "Network error. Please try again.") EXCEPT !.threw = ""]
               ELSE Q
      ELSE ShowError(P, IF data.t = "object" /\ Truthy(data.error)
                          THEN Str(data.error) ELSE "Unknown error")

\* a handler's result written back to the page
Write(P) ==
  /\ currentSummary' = P.cs /\ currentFilename' = P.cf
  /\ dom' = P.dom /\ reportWired' = P.wired
  /\ resultsHidden' = P.resultsHidden
  /\ errorText' = P.errorText /\ errorHidden' = P.errorHidden

\* part_004 lines 50-58, script.js lines 49-60: uploadFile(file) up to the
\* request
UploadFile(f) ==
  /\ errorHidden' = TRUE /\ loadingHidden' = FALSE /\ resultsHidden' = TRUE
  /\ calls' = calls \cup
       {IF page = "legacy"
          THEN Call(nextId, "legacyUpload", "json", f, 0, "null", Held)
          ELSE Call(nextId, "uploadFile", "json", f, 2, "null", Held)}
  /\ UNCHANGED <<errorText, currentSummary, currentFilename, reportWired, dom>>

\* part_004 lines 36-48, script.js lines 35-47: handleFiles(files), files[0]
\* being file f (0: the list is empty)
HandleFiles(f) ==
  /\ nextId <= MaxOps
  /\ nextId' = nextId + 1
  /\ IF f = 0 THEN UNCHANGED <<pageVars, calls, dom>>
     ELSE IF HandleFilesVerdict(f) = "type"
       THEN /\ errorText' = MsgType /\ errorHidden' = FALSE
            /\ UNCHANGED <<currentSummary, currentFilename, loadingHidden,
                           resultsHidden, reportWired, calls, dom>>
     ELSE IF HandleFilesVerdict(f) = "size"
       THEN /\ errorText' = MsgSize /\ errorHidden' = FALSE
            /\ UNCHANGED <<currentSummary, currentFilename, loadingHidden,
                           resultsHidden, reportWired, calls, dom>>
     ELSE UploadFile(f)
  /\ last' = Event("handleFiles", [NoCall EXCEPT !.file = f, !.before = Held],
                   NoOutcome, NoResult, f # 0 /\ HandleFilesVerdict(f) # "upload")
  /\ UNCHANGED <<page, onLine, sp>>

\* part_004 lines 26 and 30-34: a drop on the drop zone
Drop(f) ==
  /\ page \in {"upload", "legacy"}
  /\ HandleFiles(f)
  /\ UNCHANGED inputFiles

\* part_004 line 28: the file input changes to hold file f; the summary page
\* listens to no change event of its file input
SelectFile(f) ==
  /\ page \in {"upload", "legacy", "summary"}
  /\ inputFiles' = f
  /\ IF page = "summary"
       THEN /\ f # inputFiles
            /\ UNCHANGED <<page, nextId, onLine, sp, pageVars, calls, dom, last>>
       ELSE HandleFiles(f)

\* part_004 lines 207-211 and 231-237: an attempt of a helper's loop ends
\* with outcome o, the error is caught, and the loop starts the next attempt
FetchRetry(c, o) ==
  /\ c.caller \in HelperCallers
  /\ Attempt(c.kind, o).t = "throw"
  /\ RetryAfter(Attempt(c.kind, o).err, c.attempt, c.retries)
  /\ calls' = (calls \ {c}) \cup
       {[c EXCEPT !.attempt = @ + 1, !.prev = OutcomeTag(o),
                  !.timers = ClearTimeout(@, c.attempt) \cup {c.attempt + 1}]}
  /\ UNCHANGED <<page, nextId, onLine, pageVars, inputFiles, dom, sp, last>>

\* the helper's call ends with this attempt: it returns, or throws with no
\* attempt left
Final(c, o) ==
  IF Attempt(c.kind, o).t = "return" THEN TRUE
  ELSE ~RetryAfter(Attempt(c.kind, o).err, c.attempt, c.retries)

\* the call as it ends: attempt counts the attempts made, and the timer of
\* the last attempt is cleared
Finished(c, o) ==
  [c EXCEPT !.attempt = @ + 1, !.timers = ClearTimeout(@, c.attempt)]

\* part_004 lines 58-93: what the then-handler, or the catch-handler after
\* the helper or the then-handler threw, leaves of the page
UploadFileSettled(c, o) ==
  LET res == Attempt("json", o)
      T == UploadThen(res.v, c.file, Cur)
  IN  IF res.t = "throw" THEN UploadCatch(Cur, res.err.message)
      ELSE IF T.threw # "" THEN [UploadCatch(T, T.threw) EXCEPT !.threw = ""]
      ELSE T

\* part_004 lines 58-93: the upload's request settles for good and the
\* then-handler or the catch-handler runs
UploadFileDone(c, o) ==
  /\ c.caller = "uploadFile"
  /\ Final(c, o)
  /\ calls' = calls \ {c}
  /\ LET P == UploadFileSettled(c, o)
     IN  /\ Write(P)
         /\ last' = Event("uploadFile", Finished(c, o), o, Attempt("json", o), P.shown)
  /\ loadingHidden' = TRUE
  /\ UNCHANGED <<page, nextId, onLine, inputFiles, sp>>

\* script.js lines 57-76: the first version's request settles
LegacyUploadDone(c, o) ==
  /\ c.caller = "legacyUpload"
  /\ calls' = calls \ {c}
  /\ Write(LegacyUploadSettled(o, c.file, Cur))
  /\ last' = Event("uploadFile", Finished(c, o), o, NoResult,
                   LegacyUploadSettled(o, c.file, Cur).shown)
  /\ loadingHidden' = TRUE
  /\ UNCHANGED <<page, nextId, onLine, inputFiles, sp>>


\* window.location.href = '/summary-view': the upload page is left with
\* whatever it awaited, and the summary page loads
GoToSummaryView ==
  /\ page' = "summary"
  /\ calls' = {Call(0, "initSummary", "json", 0, 0, "null", <<"null", "null">>)}
  /\ currentSummary' = "null" /\ currentFilename' = "null"
  /\ inputFiles' = 0
  /\ errorText' = "" /\ errorHidden' = TRUE
  /\ loadingHidden' = TRUE /\ resultsHidden' = TRUE
  /\ reportWired' = FALSE
  /\ dom' = BlankDom
  /\ \E dt \in BOOLEAN :
       sp' = [BlankSp EXCEPT !.pc = "loading", !.dtLoaded = dt,
                             !.search = <<OtherFilter>>]

\* part_004 lines 270-289: a click on the analyze button, up to the request
AnalyzeClick ==
  /\ page = "upload"
  /\ nextId <= MaxOps
  /\ nextId' = nextId + 1
  /\ IF currentSummary \notin {"null", "undefined"} /\ currentFilename # "null"
       THEN GoToSummaryView
     ELSE IF inputFiles = 0
       THEN /\ errorText' = MsgSelect /\ errorHidden' = FALSE
            /\ UNCHANGED <<page, calls, currentSummary, currentFilename,
                           inputFiles, loadingHidden, resultsHidden, reportWired,
                           dom, sp>>
     ELSE /\ errorHidden' = TRUE /\ loadingHidden' = FALSE
          /\ calls' = calls \cup {Call(nextId, "analyze", "json", inputFiles, 2, "null", Held)}
          /\ UNCHANGED <<page, currentSummary, currentFilename, inputFiles,
                         errorText, resultsHidden, reportWired, dom, sp>>
  /\ last' = Event("analyzeClick", [NoCall EXCEPT !.file = inputFiles, !.before = Held],
                   NoOutcome, NoResult,
                   currentSummary \in {"null", "undefined"} /\ inputFiles = 0)
  /\ UNCHANGED onLine

\* an analyze handler that leaves for /summary-view whatever the answer
AnalyzeLeavesAnyway(c, o) ==
  /\ c.caller = "analyze"
  /\ Final(c, o)
  /\ GoToSummaryView
  /\ last' = Event("analyze", Finished(c, o), o, Attempt("json", o), FALSE)
  /\ UNCHANGED <<nextId, onLine>>

\* part_004 lines 289-303: the analyze upload settles for good
AnalyzeDone(c, o) ==
  /\ c.caller = "analyze"
  /\ Final(c, o)
  /\ LET res == Attempt("json", o)
     IN  IF res.t = "return" /\ res.v.t = "object" /\ Truthy(res.v.success)
           THEN GoToSummaryView
           ELSE /\ errorText' =
                     (IF res.t = "throw"
                        THEN (IF res.err.message # "" THEN res.err.message
                              ELSE "Upload failed. Please try again.")
                      ELSE IF res.v.t = "object" /\ Truthy(res.v.error)
                        THEN Str(res.v.error)
                      ELSE MsgUnexpected)
                /\ errorHidden' = FALSE
                /\ loadingHidden' = TRUE
                /\ calls' = calls \ {c}
                /\ UNCHANGED <<page, currentSummary, currentFilename, inputFiles,
                               resultsHidden, reportWired, dom, sp>>
  /\ last' = Event("analyze", Finished(c, o), o, Attempt("json", o), page' = "upload")
  /\ UNCHANGED <<nextId, onLine>>

\* part_004 lines 167-173, script.js lines 121-126: a click on the download
\* button once displayResults has wired it
ReportClick ==
  /\ page \in {"upload", "legacy"}
  /\ reportWired
  /\ nextId <= MaxOps
  /\ calls' = calls \cup
       {IF page = "legacy"
          THEN Call(nextId, "legacyReport", "blob", 0, 0, currentSummary, Held)
          ELSE Call(nextId, "report", "blob", 0, 1, currentSummary, Held)}
  /\ nextId' = nextId + 1
  /\ last' = Event("reportClick", [NoCall EXCEPT !.before = Held], NoOutcome, NoResult,
                   FALSE)
  /\ UNCHANGED <<page, onLine, pageVars, inputFiles, dom, sp>>

\* part_004 lines 174-188: the report request settles for good: the blob is
\* saved, or the error is shown
ReportDone(c, o) ==
  /\ c.caller = "report"
  /\ Final(c, o)
  /\ LET res == Attempt("blob", o)
     IN  IF res.t = "return" THEN UNCHANGED <<errorText, errorHidden>>
         ELSE /\ errorText' =
                   (IF ~onLine THEN MsgOffline
                    ELSE IF res.err.message # "" THEN res.err.message
                    ELSE "Failed to generate report. Please try again.")
              /\ errorHidden' = FALSE
  /\ calls' = calls \ {c}
  /\ last' = Event(IF Attempt("blob", o).t = "return" THEN "report.saved" ELSE "report.failed",
                   Finished(c, o), o, Attempt("blob", o), Attempt("blob", o).t = "throw")
  /\ UNCHANGED <<page, nextId, onLine, currentSummary, currentFilename, inputFiles,
                 loadingHidden, resultsHidden, reportWired, dom, sp>>

\* script.js lines 127-134: the first version saves whatever body arrives and
\* handles no rejection
LegacyReportDone(c, o) ==
  /\ c.caller = "legacyReport"
  /\ calls' = calls \ {c}
  /\ last' = Event(IF o.t = "response" THEN "report.saved" ELSE "report.unhandled",
                   Finished(c, o), o, NoResult, FALSE)
  /\ UNCHANGED <<page, nextId, onLine, pageVars, inputFiles, dom, sp>>

\* part_004 lines 205-240 and 242-266: a helper called directly returns or
\* throws to its caller
DirectDone(c, o) ==
  /\ c.caller = "direct"
  /\ Final(c, o)
  /\ calls' = calls \ {c}
  /\ last' = Event("direct", Finished(c, o), o, Attempt(c.kind, o), FALSE)
  /\ UNCHANGED <<page, nextId, onLine, pageVars, inputFiles, dom, sp>>

\* the browser's connectivity signal changes
ConnectivityChange ==
  /\ page # "test"
  /\ onLine' = ~onLine
  /\ UNCHANGED <<page, calls, nextId, pageVars, inputFiles, dom, sp, last>>


-----------------------------------------------------------------------------
(* The summary page: part_005.                                             *)

\* part_005 lines 337-351: the end of init(): without DataTables the page
\* stays unwired, with it the table widget is created and the handlers wired
FinishInit(x) ==
  IF x.dtLoaded THEN [x EXCEPT !.pc = "ready", !.dataTable = TRUE]
  ELSE [x EXCEPT !.pc = "unwired"]

\* buildTable and populateTypeFilter adding to what the table and the filter
\* hold
RenderSummaryOnTop(s, x) ==
  [x EXCEPT !.tableRows = x.tableRows \o SummaryToRows(s),
            !.typeOptions = x.typeOptions \cup TypeOptions(s)]

\* populateCards, buildTable and populateTypeFilter in a row (lines 283-285
\* and 324-326), from widgets x
RenderSummary(s, x) ==
  [x EXCEPT !.tableRows = SummaryToRows(s), !.typeOptions = TypeOptions(s)]

HasFilename(s) == s.file_info.t = "object" /\ s.file_info.filename # ""

\* part_005 lines 1-12 and 316-335: /summary-data settles and init() goes on
\* to its next await, or to its end
InitSummaryDone(c, o) ==
  /\ c.caller = "initSummary"
  /\ LET s == FetchSummary(o)
         R == PopulateCards(s, dom)
     IN  IF s.t # "object"
           THEN /\ dom' = [dom EXCEPT !.cardColumns = "-", !.cardRows = "-",
                                      !.cardMissing = "-", !.cardSize = "-"]
                /\ sp' = FinishInit(sp)
                /\ calls' = {}
         ELSE IF R.threw # ""
           THEN /\ sp' = [sp EXCEPT !.pc = "failed"]
                /\ calls' = {}
                /\ UNCHANGED dom
         ELSE /\ dom' = R.dom
              /\ IF HasFilename(s)
                   THEN /\ sp' = [RenderSummary(s, sp) EXCEPT !.pc = "charts"]
                        /\ calls' = {Call(0, "initCharts", "json", 0, 0, s.id,
                                          <<"null", "null">>)}
                   ELSE /\ sp' = FinishInit(RenderSummary(s, sp))
                        /\ calls' = {}
  /\ last' = Event("init", Finished(c, o), o, Return(FetchSummary(o)), FALSE)
  /\ UNCHANGED <<page, nextId, onLine, pageVars, inputFiles>>

\* part_005 lines 328-351: the charts request of init() settles
InitChartsDone(c, o) ==
  /\ c.caller = "initCharts"
  /\ sp' = FinishInit([sp EXCEPT
                        !.chartsDisplay = DisplayCharts(o, sp.chartsHtml).display,
                        !.chartsHtml = DisplayCharts(o, sp.chartsHtml).html])
  /\ calls' = calls \ {c}
  /\ last' = Event("initCharts", Finished(c, o), o, NoResult, FALSE)
  /\ UNCHANGED <<page, nextId, onLine, pageVars, inputFiles, dom>>

\* the summary whose rows the column table of widgets x holds ("null": none)
TableOf(x) ==
  IF x.tableRows # <<>> /\ \E k \in SummaryIds : x.tableRows = SummaryToRows(SummaryOf(k))
    THEN CHOOSE k \in SummaryIds : x.tableRows = SummaryToRows(SummaryOf(k))
  ELSE "null"


\* part_005 lines 395-402 and 257-263: a click on the upload button, up to
\* the request of uploadFileAndRefresh
UploadClick ==
  /\ page = "summary"
  /\ sp.pc = "ready"
  /\ ~sp.disabled
  /\ nextId <= MaxOps
  /\ nextId' = nextId + 1
  /\ IF inputFiles = 0
       THEN /\ sp' = [sp EXCEPT !.status = "Please select a file", !.danger = TRUE]
            /\ UNCHANGED calls
       ELSE /\ sp' = [sp EXCEPT !.disabled = TRUE,
                        !.status = "Uploading... please wait, this may take a moment..."]
            /\ calls' = calls \cup
                 {Call(nextId, "refreshUpload", "json", inputFiles, 0, "null",
                       <<TableOf(sp), "null">>)}
  /\ last' = Event("uploadClick", [NoCall EXCEPT !.file = inputFiles],
                   NoOutcome, NoResult, inputFiles = 0)
  /\ UNCHANGED <<page, onLine, pageVars, inputFiles, dom>>

\* part_005 lines 372-390: an input event on #filter-missing with value max
MissingFilterInput(max) ==
  /\ page = "summary"
  /\ sp.pc = "ready"
  /\ nextId <= MaxOps
  /\ nextId' = nextId + 1
  /\ sp' = [sp EXCEPT !.search = SetMissingFilter(@, max)]
  /\ UNCHANGED <<page, calls, onLine, pageVars, inputFiles, dom>>
  /\ last' = Event("filterMissing", [NoCall EXCEPT !.arg = max],
                   NoOutcome, NoResult, FALSE)

\* part_005 lines 264-270: the body read as text, then parsed if it parses
TextOrJson(o) ==
  IF o.text = "" THEN JNull
  ELSE IF JSONParse(o.text).t = "SyntaxError" THEN JStr(o.text)
  ELSE JSONParse(o.text)

\* a click handler that enables the button only after a success
RefreshFailsDisabled(c, o, message) ==
  /\ sp' = [sp EXCEPT !.status = message, !.danger = TRUE]
  /\ calls' = calls \ {c}
  /\ last' = Event("refresh", Finished(c, o), o, Return(JNull), TRUE)

\* uploadFileAndRefresh returns null with this status message (lines 272-276,
\* 294-296, 298-301), and the click handler enables the button (403)
RefreshFails(c, o, message) ==
  /\ sp' = [sp EXCEPT !.status = message, !.danger = TRUE, !.disabled = FALSE]
  /\ calls' = calls \ {c}
  /\ last' = Event("refresh", Finished(c, o), o, Return(JNull), TRUE)

\* part_005 lines 263-301: the /upload request of uploadFileAndRefresh
\* settles
RefreshUploadDone(c, o) ==
  /\ c.caller = "refreshUpload"
  /\ LET payload == TextOrJson(o)
         s == payload.summary
         R == PopulateCards(s, dom)
     IN  IF o.t # "response"
           THEN RefreshFails(c, o, "Failed to fetch") /\ UNCHANGED dom
         ELSE IF ~ResOk(o)
           THEN /\ RefreshFails(c, o,
                      IF payload.t = "object" /\ Truthy(payload.error)
                        THEN Str(payload.error)
                        ELSE "Server error " \o ToString(o.status))
                /\ UNCHANGED dom
         ELSE IF ~(payload.t = "object" /\ Truthy(payload.success))
           THEN RefreshFails(c, o, MsgUnexpected) /\ UNCHANGED dom
         ELSE IF s.t # "object"
           THEN /\ RefreshFails(c, o, "Cannot read properties of undefined (reading 'shape')")
                /\ UNCHANGED dom
         ELSE IF R.threw # ""
           THEN RefreshFails(c, o, R.threw) /\ UNCHANGED dom
         ELSE IF s.file_info.t # "object"
           THEN /\ sp' = [RenderSummary(s, sp) EXCEPT
                            !.status = "Cannot read properties of undefined (reading 'filename')",
                            !.danger = TRUE, !.disabled = FALSE]
                /\ dom' = R.dom
                /\ calls' = calls \ {c}
                /\ last' = Event("refresh", Finished(c, o), o, Return(JNull), TRUE)
         ELSE /\ sp' = [RenderSummary(s, sp) EXCEPT
                          !.status = "Analysis complete", !.danger = FALSE]
              /\ dom' = R.dom
              /\ calls' = (calls \ {c}) \cup
                   {[Finished(c, o) EXCEPT !.caller = "refreshCharts", !.arg = s.id]}
              /\ last' = Event("refresh.rendered", Finished(c, o), o, NoResult, FALSE)
  /\ UNCHANGED <<page, nextId, onLine, pageVars, inputFiles>>

\* an uploadFileAndRefresh whose catch also gets the failures of /charts
RefreshChartsRethrows(c, o) ==
  /\ c.caller = "refreshCharts"
  /\ IF DisplayCharts(o, sp.chartsHtml).display = "none"
       THEN /\ sp' = [sp EXCEPT !.status = "Chart generation failed",
                                !.danger = TRUE, !.disabled = FALSE]
            /\ calls' = calls \ {c}
            /\ last' = Event("refresh", c, o, Return(JNull), TRUE)
            /\ UNCHANGED dom
       ELSE /\ sp' = [RenderSummary(SummaryOf(c.arg), sp) EXCEPT
                        !.chartsDisplay = "block",
                        !.chartsHtml = DisplayCharts(o, sp.chartsHtml).html,
                        !.cleanedDisplay = "block", !.disabled = FALSE]
            /\ dom' = PopulateCards(SummaryOf(c.arg), dom).dom
            /\ calls' = calls \ {c}
            /\ last' = Event("refresh", c, o, Return(SummaryOf(c.arg)), FALSE)
  /\ UNCHANGED <<page, nextId, onLine, pageVars, inputFiles>>

\* part_005 lines 287-292 and 403-436: the charts request settles,
\* uploadFileAndRefresh returns the summary and the click handler renders it
RefreshChartsDone(c, o) ==
  /\ c.caller = "refreshCharts"
  /\ LET s == SummaryOf(c.arg)
     IN  /\ sp' = [RenderSummary(s, sp) EXCEPT
                     !.chartsDisplay = DisplayCharts(o, sp.chartsHtml).display,
                     !.chartsHtml = DisplayCharts(o, sp.chartsHtml).html,
                     !.cleanedDisplay = "block", !.disabled = FALSE]
         /\ dom' = PopulateCards(s, dom).dom
         /\ calls' = calls \ {c}
         /\ last' = Event("refresh", c, o, Return(s), FALSE)
  /\ UNCHANGED <<page, nextId, onLine, pageVars, inputFiles>>

-----------------------------------------------------------------------------

Next ==
  \/ \E f \in FileIds \cup {0} : Drop(f)
  \/ \E f \in FileIds \cup {0} : SelectFile(f)
  \/ AnalyzeClick
  \/ ReportClick
  \/ UploadClick
  \/ \E max \in MissingInputs : MissingFilterInput(max)
  \/ ConnectivityChange
  \/ \E c \in calls : \E o \in OutcomesFor(c) :
       \/ FetchRetry(c, o)
       \/ UploadFileDone(c, o)
       \/ LegacyUploadDone(c, o)
       \/ AnalyzeDone(c, o)
       \/ ReportDone(c, o)
       \/ LegacyReportDone(c, o)
       \/ InitSummaryDone(c, o)
       \/ InitChartsDone(c, o)
       \/ RefreshUploadDone(c, o)
       \/ RefreshChartsDone(c, o)
       \/ DirectDone(c, o)

Spec == Init /\ [][Next]_vars


-----------------------------------------------------------------------------
(* Properties of the fetch helpers.                                        *)

\* a call of one of the two helpers, in flight or just ended
ByHelper(c) == c.caller \in HelperCallers

\* C3: a helper starts another attempt only after an attempt that ended by
\* timeout or abort; a failure of another kind, such as a 4xx/5xx response
\* with a body, is never followed by another attempt of the same call.
C3_RetryOnlyAfterAbort ==
  \A c \in calls : ByHelper(c) /\ c.attempt > 0 => c.prev = "abort"

\* C4: with a retry count of at least 1, a call of fetchWithTimeoutAndRetries
\* whose first attempt is aborted and whose second attempt gets a 2xx answer
\* returns that answer's result, after exactly two attempts: the abort does
\* not end the call, and no attempt follows the answered one.
C4_AbortThenSuccess ==
  /\ last.op = "direct" /\ last.call.attempt = 1 /\ last.o = Aborted
       => last.call.retries = 0
  /\ \A c \in calls : c.caller = "direct" => c.prev # "ok"
  /\ /\ last.op = "direct" /\ last.call.kind = "json"
     /\ last.call.retries >= 1 /\ last.call.prev = "abort"
     /\ last.call.attempt = 2
     /\ last.o.t = "response" /\ last.o.status = 200
     => /\ last.res.t = "return"
        /\ last.res.v = IF last.o.text = "" THEN JNull
                        ELSE IF JSONParse(last.o.text).t = "SyntaxError"
                          THEN JStr(last.o.text)
                        ELSE JSONParse(last.o.text)

C4_Witness ==
  /\ last.op = "direct" /\ last.call.kind = "json"
  /\ last.call.retries >= 1 /\ last.call.attempt = 2 /\ last.call.prev = "abort"
  /\ last.o = Response(200, "OK", OkText("S1"))
  /\ last.res.t = "return" /\ last.res.v.t = "object"
  /\ last.res.v.summary = SummaryOf("S1")

-----------------------------------------------------------------------------
(* Properties of the pages.                                                *)

\* the handler that ran last ended an upload started by handleFiles on the
\* upload page
UploadEnded == last.op = "uploadFile" /\ last.call.caller = "uploadFile"

\* the handler that ran last ended the /upload request of the summary page
RefreshUploadEnded ==
  last.op \in {"refresh", "refresh.rendered"} /\ last.call.caller = "refreshUpload"

Ok200(k) == Response(200, "OK", OkText(k))

\* C1: an upload on the upload page that ends with an error shown leaves
\* currentSummary and currentFilename as they were before that upload.
C1_FailedUploadKeepsState ==
  UploadEnded /\ last.shown
    => <<currentSummary, currentFilename>> = last.call.before

\* C2: when /upload answers with a status that is not 2xx and a JSON body
\* with an error field, the message shown is that field's value, on the
\* upload page (while the browser is online) and on the summary page.
C2_ErrorFieldIsShown ==
  last.o.t = "response" /\ ~ResOk(last.o) /\ last.o.text = TextDiskFull
    => /\ UploadEnded /\ onLine => ~errorHidden /\ errorText = "disk full"
       /\ RefreshUploadEnded => sp.status = "disk full"

\* the name ends with the extension, whatever the case of its letters
HasExtension(chars, ext) ==
  /\ Len(chars) >= Len(ext)
  /\ \A i \in 1..Len(ext) : Lower(chars[Len(chars) - Len(ext) + i]) = ext[i]

NamedCsvOrXlsx(f) ==
  \/ HasExtension(FileOf(f).chars, <<".", "c", "s", "v">>)
  \/ HasExtension(FileOf(f).chars, <<".", "x", "l", "s", "x">>)

\* handleFiles was the handler that ran last, on a file
HandledFile == last.op = "handleFiles" /\ last.call.file # 0

\* C6: handleFiles rejects a file whose name does not end in .csv or .xlsx
\* (in any case) with the message "Please upload a .csv or .xlsx file." and
\* sends no request.
C6_WrongExtensionRejected ==
  HandledFile /\ ~NamedCsvOrXlsx(last.call.file)
    => /\ last.sent = 0
       /\ ~errorHidden
       /\ errorText = "Please upload a .csv or .xlsx file."

C6_Witness ==
  /\ HandledFile /\ FileOf(last.call.file).name = "x.txt"
  /\ last.sent = 0 /\ ~errorHidden /\ errorText = MsgType

\* C7: handleFiles rejects a well-named file of more than 10 MB with "File
\* size must be under 10MB." and no request; a well-named file of at most
\* 10 MB makes it send a request, and when the server answers the first
\* attempt with a response, that request is the upload's only one.
C7_SizeCheckedThenOneRequest ==
  /\ HandledFile /\ NamedCsvOrXlsx(last.call.file)
       /\ FileOf(last.call.file).size > 10 * 1024 * 1024
       => last.sent = 0 /\ ~errorHidden /\ errorText = "File size must be under 10MB."
  /\ HandledFile /\ NamedCsvOrXlsx(last.call.file)
       /\ FileOf(last.call.file).size <= 10 * 1024 * 1024
       => last.sent = 1
  /\ \A c \in calls : c.caller \in {"uploadFile", "legacyUpload"} /\ c.attempt = 1
       => c.prev \notin {"ok", "notok"}

\* C8: no user action on a page makes it send an /upload request for a file
\* that fails the validation of the name or of the size.
C8_NoRequestForInvalidFile ==
  \A c \in calls :
    c.caller \in {"uploadFile", "legacyUpload", "analyze", "refreshUpload"}
      => NamedCsvOrXlsx(c.file) /\ FileOf(c.file).size <= 10 * 1024 * 1024

\* what displayResults renders of summary k on a page that showed nothing
FreshlyRendered(k) ==
  IF page = "legacy" THEN LegacyDisplayResults(SummaryOf(k), BlankDom, FALSE).dom
  ELSE DisplayResults(SummaryOf(k), BlankDom, FALSE).dom

\* C9: after a success response with a valid summary, the page holds and
\* shows that summary alone: the upload page holds it as currentSummary with
\* the file's name and shows what it would show of it on a fresh page; the
\* summary page shows its cards, rows and types and its upload returns it.
C9_SuccessReplacesSummary ==
  /\ \A k \in SummaryIds :
       ValidSummary(SummaryOf(k)) /\ last.o = Ok200(k) =>
         /\ last.op = "uploadFile" =>
              /\ currentSummary = k
              /\ currentFilename = FileOf(last.call.file).name
              /\ dom = FreshlyRendered(k)
              /\ ~resultsHidden /\ reportWired /\ ~last.shown
         /\ RefreshUploadEnded =>
              /\ last.op = "refresh.rendered"
              /\ dom = PopulateCards(SummaryOf(k), BlankDom).dom
              /\ sp.tableRows = SummaryToRows(SummaryOf(k))
              /\ sp.typeOptions = TypeOptions(SummaryOf(k))
              /\ sp.status = "Analysis complete" /\ ~last.shown
  /\ last.op = "refresh" /\ last.call.caller = "refreshCharts" =>
       /\ last.res = Return(SummaryOf(last.call.arg))
       /\ dom = PopulateCards(SummaryOf(last.call.arg), BlankDom).dom
       /\ sp.tableRows = SummaryToRows(SummaryOf(last.call.arg))
       /\ sp.typeOptions = TypeOptions(SummaryOf(last.call.arg))

C9_Witness ==
  /\ page = "upload" /\ UploadEnded /\ last.o = Ok200("S2")
  /\ last.call.before = <<"S1", "a.csv">>
  /\ currentSummary = "S2" /\ currentFilename = "B.XLSX"
  /\ dom.summaryInfo[1] = "1000"

\* the texts of the rows card and of the columns card for a summary
CardsOf(k) ==
  CASE k = "S1" -> <<"100", "2">>
    [] k = "S2" -> <<"1,000", "1">>
    [] k = "S3" -> <<"100", "3">>

\* C10: after a success response whose summary has a shape, the rows card
\* shows the first entry of the shape and the columns card the second, on
\* the upload page and on the summary page; for the summary of shape
\* [100, 3] they show 100 and 3.
C10_CardsShowShape ==
  /\ \A k \in {"S1", "S2", "S3"} :
       /\ last.o = Ok200(k)
       /\ (page = "upload" /\ UploadEnded) \/ RefreshUploadEnded
       => <<dom.cardRows, dom.cardColumns>> = CardsOf(k)
  /\ last.op = "refresh" /\ last.call.caller = "refreshCharts"
       => <<dom.cardRows, dom.cardColumns>> = CardsOf(last.call.arg)

C10_Witness ==
  /\ page = "summary" /\ last.op = "refresh" /\ last.call.caller = "refreshUpload"
  /\ last.o = Ok200("S3")
  /\ dom.cardRows = "100" /\ dom.cardColumns = "3"


\* the /upload operations that are outstanding
Uploads ==
  {c \in calls : c.caller \in {"uploadFile", "legacyUpload", "analyze", "refreshUpload"}}

\* C11: whatever the user does (drop, file selection, analyze click, click on
\* the upload button), at most one /upload operation is outstanding.
C11_OneUploadAtATime == Cardinality(Uploads) <= 1

\* handleFiles was the handler that ran last and it started an upload on the
\* upload page
UploadStarted == page = "upload" /\ last.op = "handleFiles" /\ last.sent = 1

\* C12: on the upload page, starting an upload shows the loading indicator
\* and hides the results and the error; every upload ends in exactly one of
\* Ready (results shown, error hidden) and Error (error shown, results
\* hidden), so that after an upload the results and an error are never both
\* shown.
C12_UploadLifecycle ==
  /\ UploadStarted => ~loadingHidden /\ resultsHidden /\ errorHidden
  /\ UploadEnded =>
       \/ ~resultsHidden /\ errorHidden
       \/ resultsHidden /\ ~errorHidden

\* the handler that ran last started an operation: an upload on the upload
\* page, an upload on the summary page, or a report download
OperationStarted ==
  \/ UploadStarted
  \/ page = "summary" /\ last.op = "uploadClick" /\ last.sent = 1
  \/ page = "upload" /\ last.op = "reportClick" /\ last.sent = 1

\* C13: when an operation starts (an upload on either page, a report
\* download), the error left by an earlier operation is cleared: the error
\* alert is hidden and the status text has no error styling.
C13_ErrorClearedAtStart ==
  OperationStarted => errorHidden /\ ~sp.danger

\* C14: every request a page has outstanding (GET /summary-data, POST
\* /upload from either page, POST /charts, POST /report) was made with an
\* abort timeout, so that it ends even if the server never answers.
C14_EveryRequestHasTimeout == \A c \in calls : HasAbortSignal(c)

\* the text is one that JSON.parse accepts
IsJson(text) == JSONParse(text).t # "SyntaxError"

\* fetchWithTimeoutAndRetries was called directly and ended on a response
HelperGotResponse ==
  last.op = "direct" /\ last.call.kind = "json" /\ last.o.t = "response"

\* the message of the error for a body that is not JSON, status 500
MessageFor(text) ==
  IF text = TextPlain THEN "Internal Server Error"
  ELSE "Server error 500 Internal Server Error"

\* the failure the claim describes for a non-2xx body that does not parse
FailsWithBodyText ==
  ~ResOk(last.o) /\ ~IsJson(last.o.text) =>
    /\ last.res.t = "throw"
    /\ last.res.err.message = MessageFor(last.o.text)

\* C15, as the code has it: fetchWithTimeoutAndRetries returns a 2xx body
\* that parses as the parsed value, a non-empty 2xx body that does not parse
\* as the raw text, and an empty 2xx body as null; a non-2xx body that does
\* not parse makes the attempt fail with the trimmed raw text as message, or
\* with 'Server error <status> <statusText>' when the body is blank.
C15_BodyReadThenParsed ==
  HelperGotResponse =>
    /\ ResOk(last.o) /\ IsJson(last.o.text)
         => last.res = Return(JSONParse(last.o.text))
    /\ ResOk(last.o) /\ ~IsJson(last.o.text) /\ last.o.text # ""
         => last.res = Return(JStr(last.o.text))
    /\ ResOk(last.o) /\ last.o.text = "" => last.res = Return(JNull)
    /\ FailsWithBodyText

C15_Witness ==
  /\ HelperGotResponse
  /\ last.o = Response(500, "Internal Server Error", TextPlain)
  /\ last.res.t = "throw" /\ last.res.err.message = "Internal Server Error"

\* C15, as stated: every 2xx body that does not parse is returned as the
\* raw text.
C15_UnparsedBodyIsText ==
  HelperGotResponse =>
    /\ ResOk(last.o) /\ IsJson(last.o.text)
         => last.res = Return(JSONParse(last.o.text))
    /\ ResOk(last.o) /\ ~IsJson(last.o.text)
         => last.res = Return(JStr(last.o.text))
    /\ FailsWithBodyText

\* the message the claim expects for a 2xx body without success: true
ProtocolMessage(text) ==
  IF text = TextFailError THEN "Unsupported file" ELSE "Unexpected server response"

\* C16: for a 2xx /upload response whose body lacks success or has
\* success: false, the page shows the body's error field if it has one and
\* 'Unexpected server response' otherwise, and takes no summary from it, on
\* the upload page and on the summary page.
C16_ProtocolErrorMessage ==
  ResOk(last.o) /\ last.o.text \in {TextFailError, TextFail} =>
    /\ UploadEnded =>
         /\ last.shown /\ ~errorHidden
         /\ errorText = ProtocolMessage(last.o.text)
         /\ currentSummary \in {last.call.before[1]} \cup {c.before[1] : c \in calls}
    /\ RefreshUploadEnded =>
         /\ last.op = "refresh" /\ last.res = Return(JNull)
         /\ sp.status = ProtocolMessage(last.o.text)

\* an upload of the upload page failed in its request: the helper threw
UploadRequestFailed == UploadEnded /\ last.res.t = "throw"

\* the failure came with a response whose body has an error field
FailedWithErrorField == last.o.t = "response" /\ last.o.text = TextDiskFull

\* the failure came with a response whose body is not blank
FailedWithText == last.o.t = "response" /\ last.o.text \notin {"", TextBlank}

\* C17: after a failed upload the message shown is the server's error field
\* if there is one; the offline message is shown exactly when the failure
\* came with no error field and no response text and navigator.onLine is
\* false.
C17_MessagePriority ==
  UploadRequestFailed =>
    /\ ~errorHidden
    /\ FailedWithErrorField => errorText = "disk full"
    /\ errorText = "No network connection. Please check your internet and try again."
         <=> ~onLine /\ ~FailedWithErrorField /\ ~FailedWithText

\* C18: rendering a summary never throws to its caller, whatever fields the
\* summary lacks: after a success response the upload page ends with the
\* results shown and no error, and the summary page gets through
\* populateCards, buildTable and populateTypeFilter.
C18_RenderingNeverThrows ==
  \A k \in SummaryIds :
    last.o = Ok200(k) =>
      /\ UploadEnded => ~last.shown /\ ~resultsHidden
      /\ RefreshUploadEnded =>
           \/ last.op = "refresh.rendered"
           \/ sp.status = "Cannot read properties of undefined (reading 'filename')"

\* the cells (column, type, missing, unique) the claim expects for S1, whose
\* maps lack keys: an empty type and 0 where the key is absent
CellsOfS1 == << <<"a", "int64", "0", "0">>, <<"b", "", "2", "0">> >>

\* the first four cells of each row of the summary page's table
FirstFourCells(rows) ==
  [i \in 1..Len(rows) |-> <<rows[i][1], rows[i][2], rows[i][3], rows[i][4]>>]

\* C19: a column that has no key in data_types, missing_values or
\* unique_counts is rendered with an empty type, 0 missing and 0 unique, in
\* the table of the summary page and in the table of the upload page.
C19_MissingKeysAreZero ==
  last.o = Ok200("S1") =>
    /\ UploadEnded => dom.columnsTable = CellsOfS1
    /\ RefreshUploadEnded => FirstFourCells(sp.tableRows) = CellsOfS1

\* the names in the first cell of each row
NamesOf(rows) == [i \in 1..Len(rows) |-> rows[i][1]]

\* each name of cols is the name of exactly one row, and there is no other row
OneRowEach(rows, cols) ==
  /\ Len(rows) = Len(cols)
  /\ \A j \in 1..Len(cols) :
       Cardinality({i \in 1..Len(rows) : rows[i][1] = cols[j]}) = 1

\* a success response with a valid summary was handled last
ValidRendered(k) == ValidSummary(SummaryOf(k)) /\ last.o = Ok200(k)

-----------------------------------------------------------------------------
(* Chart selection of the summary page.  displayCharts is explored on its  *)
(* own: the answer of /charts has arrived, and the handler selects and     *)
(* renders.  The charts object is kept as the sequence of its entries, in  *)
(* the order Object.keys lists them.                                       *)

\* part_005 line 116: const MAX_CHARTS = 4
MAX_CHARTS == 4
\* entries of the largest charts object explored
MaxChartKeys == 5

HeatmapKey == "correlation_heatmap"
ScatterKeys == {"scatter__a__b", "scatter__a__c"}
ColumnKeys == {"age", "city"}
ChartKeys == {HeatmapKey} \cup ScatterKeys \cup ColumnKeys

\* k.startsWith('scatter__')
StartsWithScatter(k) == k \in ScatterKeys

\* part_005 line 224: const pref
ChartTypes == <<"histogram", "boxplot", "barh", "pie">>
ChartTypeSet == {ChartTypes[i] : i \in DOMAIN ChartTypes}

\* the value the server sends under key k: an image for the heatmap and the
\* scatter plots, an object {type: image} holding the types in S for a column
ChartValue(k, S) ==
  IF k \in ColumnKeys THEN JMap([ty \in S |-> JStr(k \o "." \o ty)])
  ELSE JStr(k)

JObj(entries) == [t |-> "object", entries |-> entries]

KeyOrders ==
  UNION {{s \in [1..n -> ChartKeys] : \A i, j \in 1..n : s[i] = s[j] => i = j} :
           n \in 0..MaxChartKeys}

ChartObjects ==
  {JObj([i \in DOMAIN s |-> [key |-> s[i], value |-> ChartValue(s[i], f[s[i]])]]) :
     s \in KeyOrders, f \in [ColumnKeys -> SUBSET ChartTypeSet]}

\* the parsed answers of /charts explored: {success: true, charts}, the same
\* without charts, and a refusal
ChartsPayloads ==
  {[t |-> "object", success |-> JTrue, charts |-> c, error |-> Undef] :
     c \in ChartObjects \cup {Undef}}
    \cup {[t |-> "object", success |-> JFalse, charts |-> Undef,
           error |-> JStr("no file")]}

\* Object.keys(charts)
Keys(charts) == [i \in DOMAIN charts.entries |-> charts.entries[i].key]

\* charts[key]
ChartOf(charts, key) ==
  IF \E i \in DOMAIN charts.entries : charts.entries[i].key = key
    THEN charts.entries[CHOOSE i \in DOMAIN charts.entries :
                          charts.entries[i].key = key].value
  ELSE Undef

\* one card of the charts container: the entry it was taken from, the chart
\* type its title names ("" when it names none) and the image of its <img>
Card(key, type, src) == [key |-> key, type |-> type, src |-> src]
NoChartsAlert == Card("", "alert", "")

\* find taken as the last match
LeastNot(S) == CHOOSE i \in S : \A j \in S : i >= j

Least(S) == CHOOSE i \in S : \A j \in S : i <= j

\* part_005 lines 170-171 and 192-193: the first entry that is neither a
\* scatter plot nor the heatmap and holds a chart of type a or of type b
FirstWith(charts, a, b) ==
  LET keys == Keys(charts)
      hits == {i \in DOMAIN keys :
                 /\ ~StartsWithScatter(keys[i]) /\ keys[i] # HeatmapKey
                 /\ LET v == ChartOf(charts, keys[i])
                    IN  /\ Truthy(v) /\ v.t = "object"
                        /\ Truthy(Or(Get(v, a), Get(v, b)))}
  IN  IF hits = {} THEN "" ELSE keys[Least(hits)]

\* part_005 lines 172-187 and 194-209: the card of entry key, of type a when
\* the entry holds one and of type b otherwise
PreferredCard(charts, key, a, b) ==
  LET v == ChartOf(charts, key)
      type == IF Truthy(Get(v, a)) THEN a ELSE b
  IN  Card(key, type, Str(Get(v, type)))

\* part_005 lines 217-230: the image the fallback finds under key, null when
\* it finds none
FallbackCard(charts, key) ==
  LET value == ChartOf(charts, key)
      ts == {i \in DOMAIN ChartTypes : Truthy(Get(value, ChartTypes[i]))}
  IN  IF value.t = "string" THEN Card(key, "", value.s)
      ELSE IF Truthy(value) /\ value.t = "object" /\ ts # {}
        THEN Card(key, ChartTypes[Least(ts)],
                  Get(value, ChartTypes[Least(ts)]).s)
      ELSE Card(key, "", "")

\* the fallback loop without its break
RECURSIVE FallbackWithoutBreak(_, _, _)
FallbackWithoutBreak(charts, keys, cards) ==
  IF keys = <<>> THEN cards
  ELSE LET c == FallbackCard(charts, Head(keys))
       IN  FallbackWithoutBreak(charts, Tail(keys),
                                IF c.src # "" THEN Append(cards, c) ELSE cards)

\* the fallback loop walking the keys from the last one
RECURSIVE FallbackFromLast(_, _, _)
FallbackFromLast(charts, keys, cards) ==
  IF keys = <<>> \/ Len(cards) >= MAX_CHARTS THEN cards
  ELSE LET c == FallbackCard(charts, keys[Len(keys)])
       IN  FallbackFromLast(charts, SubSeq(keys, 1, Len(keys) - 1),
                            IF c.src # "" THEN Append(cards, c) ELSE cards)

\* part_005 lines 215-243: the loop over the keys left
RECURSIVE Fallback(_, _, _)
Fallback(charts, keys, cards) ==
  IF keys = <<>> \/ Len(cards) >= MAX_CHARTS THEN cards
  ELSE LET c == FallbackCard(charts, Head(keys))
       IN  Fallback(charts, Tail(keys),
                    IF c.src # "" THEN Append(cards, c) ELSE cards)

\* part_005 lines 130-244: the cards displayCharts builds from payload.charts
SelectCharts(charts) ==
  LET keys == Keys(charts)
      heat == ChartOf(charts, HeatmapKey)
      c1 == IF Truthy(heat) /\ 0 < MAX_CHARTS
              THEN <<Card(HeatmapKey, "", Str(heat))>> ELSE <<>>
      u1 == IF c1 # <<>> THEN {HeatmapKey} ELSE {}
      scatters == {i \in DOMAIN keys : StartsWithScatter(keys[i])}
      hasScatter == Len(c1) < MAX_CHARTS /\ scatters # {}
      scatterKey == keys[Least(scatters)]
      c2 == IF hasScatter
              THEN Append(c1, Card(scatterKey, "", Str(ChartOf(charts, scatterKey))))
            ELSE c1
      u2 == IF hasScatter THEN u1 \cup {scatterKey} ELSE u1
      numKey == FirstWith(charts, "histogram", "boxplot")
      hasNum == Len(c2) < MAX_CHARTS /\ numKey # ""
      c3 == IF hasNum
              THEN Append(c2, PreferredCard(charts, numKey, "histogram", "boxplot"))
            ELSE c2
      u3 == IF hasNum THEN u2 \cup {numKey} ELSE u2
      catKey == FirstWith(charts, "barh", "pie")
      hasCat == Len(c3) < MAX_CHARTS /\ catKey # ""
      c4 == IF hasCat
              THEN Append(c3, PreferredCard(charts, catKey, "barh", "pie"))
            ELSE c3
      u4 == IF hasCat THEN u3 \cup {catKey} ELSE u3
  IN  IF Len(c4) < MAX_CHARTS
        THEN Fallback(charts, SelectSeq(keys, LAMBDA k : k \notin u4), c4)
      ELSE c4

\* part_005 lines 124-254 for a parsed answer: the display of the charts
\* section and the content of the charts container
ChartsSection(payload, x) ==
  IF ~Truthy(payload.success) THEN [x EXCEPT !.chartsDisplay = "none"]
  ELSE LET cards == SelectCharts(Or(payload.charts, JObj(<<>>)))
       IN  [x EXCEPT !.chartsDisplay = "block",
                     !.chartsHtml = IF cards = <<>> THEN <<NoChartsAlert>> ELSE cards]

\* init() of the summary page has rendered a summary and awaits displayCharts,
\* whose request has been answered with payload
ChartsAnswered(payload) ==
  /\ page = "summary"
  /\ nextId = 1
  /\ onLine = TRUE
  /\ calls = {}
  /\ currentSummary = "null" /\ currentFilename = "null"
  /\ inputFiles = 0
  /\ errorText = "" /\ errorHidden = TRUE
  /\ loadingHidden = TRUE /\ resultsHidden = TRUE
  /\ reportWired = FALSE
  /\ dom = PopulateCards(SummaryOf("S1"), BlankDom).dom
  /\ sp = [RenderSummary(SummaryOf("S1"), BlankSp) EXCEPT
             !.pc = "charts", !.dtLoaded = TRUE, !.chartsHtml = <<>>]
  /\ last = [op |-> "charts.answered",
             call |-> Call(0, "initCharts", "json", 0, 0, "S1", <<"null", "null">>),
             o |-> Response(200, "OK", "charts"), res |-> Return(payload),
             shown |-> FALSE, sent |-> 0]

InitCharts == \E payload \in ChartsPayloads : ChartsAnswered(payload)

\* part_005 lines 126-254 and 337-351: displayCharts renders the answer and
\* init() runs to its end
RenderCharts ==
  /\ last.op = "charts.answered"
  /\ sp' = FinishInit(ChartsSection(last.res.v, sp))
  /\ last' = [last EXCEPT !.op = "displayCharts"]
  /\ UNCHANGED <<page, calls, nextId, onLine, pageVars, inputFiles, dom>>

NextCharts == RenderCharts

SpecCharts == InitCharts /\ [][NextCharts]_vars

\* the images of the charts container
Images(html) == SelectSeq(html, LAMBDA c : c.type # "alert")
\* the charts object the rendered answer carried
Sent == Or(last.res.v.charts, JObj(<<>>))
ChartsRendered == last.op = "displayCharts" /\ Truthy(last.res.v.success)

-----------------------------------------------------------------------------
(* Properties of the chart selection.                                      *)

\* the priority slot a card belongs to by what it shows: 1 the heatmap, 2 a
\* scatter plot, 3 a numeric distribution, 4 a categorical chart
SlotOf(c) ==
  CASE c.key = HeatmapKey -> 1
    [] StartsWithScatter(c.key) -> 2
    [] c.type \in {"histogram", "boxplot"} -> 3
    [] OTHER -> 4

\* the column entries of charts that offer a chart of one of the types in T
Offering(charts, T) ==
  {e \in {charts.entries[i] : i \in DOMAIN charts.entries} :
     e.key \in ColumnKeys /\ DOMAIN e.value.m \cap T # {}}

\* the priority slots the charts object can fill, in priority order
SlotsOffered(charts) ==
  LET has == [n \in 1..4 |->
               CASE n = 1 -> Truthy(ChartOf(charts, HeatmapKey))
                 [] n = 2 -> \E k \in ScatterKeys : Truthy(ChartOf(charts, k))
                 [] n = 3 -> Offering(charts, {"histogram", "boxplot"}) # {}
                 [] n = 4 -> Offering(charts, {"barh", "pie"}) # {}]
  IN  SelectSeq(<<1, 2, 3, 4>>, LAMBDA n : has[n])

\* C22: whatever charts the answer of /charts carries, displayCharts shows at
\* most 4 images, and shows them in the fixed priority order: the heatmap
\* first when there is one, then one scatter plot, one numeric distribution
\* and one categorical chart, as far as the answer offers them, and only then
\* fill-ins, which are taken from entries no priority pick was taken from.
C22_AtMostFourInPriorityOrder ==
  ChartsRendered =>
    LET imgs == Images(sp.chartsHtml)
        slots == SlotsOffered(Sent)
    IN  /\ Len(imgs) <= 4
        /\ Len(imgs) >= Len(slots)
        /\ \A i \in DOMAIN slots : SlotOf(imgs[i]) = slots[i]
        /\ \A i \in DOMAIN imgs : \A j \in DOMAIN slots :
             i > Len(slots) => imgs[i].key # imgs[j].key

\* a fifth chart is left out: five entries that all hold an image, the four
\* priority slots filled
C22_Witness ==
  /\ ChartsRendered
  /\ Len(Sent.entries) = 5
  /\ \A i \in 1..5 : FallbackCard(Sent, Sent.entries[i].key).src # ""
  /\ Len(Images(sp.chartsHtml)) = 4
  /\ SlotsOffered(Sent) = <<1, 2, 3, 4>>



\* the answer carries the heatmap, two scatter plots and one column entry
\* that holds a histogram only
HeatmapTwoScattersOneHistogram ==
  /\ ChartsRendered
  /\ Len(Sent.entries) = 4
  /\ {HeatmapKey} \cup ScatterKeys \subseteq {Sent.entries[i].key : i \in 1..4}
  /\ \A i \in 1..4 :
       Sent.entries[i].key \in ColumnKeys =>
         DOMAIN Sent.entries[i].value.m = {"histogram"}

\* the scatter key Object.keys lists first, and the other one
FirstScatter ==
  CHOOSE k \in ScatterKeys :
    \E i \in 1..4 : /\ Sent.entries[i].key = k
                     /\ \A j \in 1..(i - 1) : Sent.entries[j].key \notin ScatterKeys
OtherScatter == CHOOSE k \in ScatterKeys : k # FirstScatter

\* C23: for an answer with correlation_heatmap, two scatter__* keys and one
\* histogram entry, displayCharts shows the heatmap, then the scatter plot
\* listed first, then the histogram, and then fills the fourth slot with the
\* other scatter plot: 4 images.
C23_HeatmapScatterHistogramThenFill ==
  HeatmapTwoScattersOneHistogram =>
    LET imgs == Images(sp.chartsHtml)
    IN  /\ Len(imgs) = 4
        /\ imgs[1].key = HeatmapKey
        /\ imgs[2].key = FirstScatter
        /\ imgs[3].key \in ColumnKeys /\ imgs[3].type = "histogram"
        /\ imgs[4].key = OtherScatter

\* the scatter plot shown second is the one the answer lists first, whatever
\* its name
C23_Witness ==
  /\ HeatmapTwoScattersOneHistogram
  /\ Sent.entries[1].key = "scatter__a__c"
  /\ Sent.entries[4].key = HeatmapKey
  /\ Images(sp.chartsHtml)[2].key = "scatter__a__c"
  /\ Images(sp.chartsHtml)[4].key = "scatter__a__b"

\* C23 as stated: the same answer yields exactly 3 images, the heatmap, one
\* scatter plot and the histogram.
C23_ExactlyThreeImages ==
  HeatmapTwoScattersOneHistogram =>
    LET imgs == Images(sp.chartsHtml)
    IN  /\ Len(imgs) = 3
        /\ imgs[1].key = HeatmapKey
        /\ imgs[2].key = FirstScatter
        /\ imgs[3].type = "histogram"



\* entry e holds an image the fallback can show
Displayable(e) ==
  IF e.key \in ColumnKeys THEN DOMAIN e.value.m # {} ELSE e.value.s # ""

\* the image of entry e a fill-in shows: the entry's image, or of a column
\* entry the first type it holds of histogram, boxplot, barh, pie
FillImage(e) ==
  IF e.key \notin ColumnKeys THEN e.value.s
  ELSE LET has == DOMAIN e.value.m
       IN  CASE "histogram" \in has -> e.value.m["histogram"].s
             [] "boxplot" \in has -> e.value.m["boxplot"].s
             [] "barh" \in has -> e.value.m["barh"].s
             [] OTHER -> e.value.m["pie"].s

SlotCard(n) ==
  LET slots == SlotsOffered(Sent)
  IN  Images(sp.chartsHtml)[CHOOSE i \in DOMAIN slots : slots[i] = n]

\* C30: the numeric slot shows a histogram whenever some entry of the answer
\* holds a histogram, and a boxplot only when no entry holds one; likewise
\* the categorical slot shows a horizontal bar chart whenever some entry holds
\* one, and a pie chart only when none does.
C30_PreferredTypeAcrossEntries ==
  ChartsRendered =>
    /\ Offering(Sent, {"histogram"}) # {} => SlotCard(3).type = "histogram"
    /\ Offering(Sent, {"barh"}) # {} => SlotCard(4).type = "barh"

-----------------------------------------------------------------------------
(* Properties of the summary page's rendering.                             *)

\* the handler that ran last rendered summary k on the summary page: the
\* then-branch of uploadFileAndRefresh, or the click handler after it
RenderedOnSummaryPage(k) ==
  \/ /\ last.op = "refresh.rendered"
     /\ TextOrJson(last.o).summary = SummaryOf(k)
  \/ /\ last.op = "refresh" /\ last.call.caller = "refreshCharts"
     /\ last.res = Return(SummaryOf(k))

\* C21: rendering replaces.  Whatever the table and the type filter held,
\* once a summary is rendered they hold that summary's rows and types and
\* nothing else; and the click handler's rendering of the summary that
\* uploadFileAndRefresh has just rendered leaves rows and options as they
\* were after the first rendering.
C21_RenderingReplaces ==
  /\ [](\A k \in SummaryIds :
          RenderedOnSummaryPage(k) =>
            /\ sp.tableRows = SummaryToRows(SummaryOf(k))
            /\ ShownRows(sp) = OrderByMissingDesc(SummaryToRows(SummaryOf(k)))
            /\ sp.typeOptions = TypeOptions(SummaryOf(k)))
  /\ [][last'.op = "refresh" /\ last'.call.caller = "refreshCharts"
          => /\ sp'.tableRows = sp.tableRows
             /\ sp'.typeOptions = sp.typeOptions]_vars

\* summary S2 (one column) rendered over the two rows of S1: only S2's row
\* is left
C21_Witness ==
  /\ RenderedOnSummaryPage("S2")
  /\ last.call.before[1] = "S1"
  /\ Len(sp.tableRows) = 1
  /\ sp.tableRows = SummaryToRows(SummaryOf("S2"))


\* the four cards of the summary page show a dash
CardsBlank ==
  /\ dom.cardColumns = "-" /\ dom.cardRows = "-"
  /\ dom.cardMissing = "-" /\ dom.cardSize = "-"

\* init() got an answer of /summary-data that is not a 2xx success
InitWithoutSummary ==
  last.op = "init" /\ \A k \in SummaryIds : last.o # Ok200(k)

-----------------------------------------------------------------------------
(* Properties of the report download.                                      *)

\* the report request of the upload page has ended with outcome o, which is
\* a failure: no 2xx answer
ReportRequestFailed ==
  /\ last.op \in {"report.saved", "report.failed"}
  /\ last.call.caller = "report"
  /\ ~(last.o.t = "response" /\ ResOk(last.o))

\* C26: when POST /report fails, nothing is saved and the message shown
\* follows the policy of the upload: the error field of a non-2xx JSON body,
\* else the body's text, else the generic message, or the offline message
\* when the browser is offline.
C26_ReportErrorPolicy ==
  ReportRequestFailed =>
    /\ last.op = "report.failed"
    /\ ~errorHidden
    /\ errorText =
         (IF FailedWithErrorField THEN "disk full"
          ELSE IF FailedWithText THEN Trim(last.o.text)
          ELSE IF ~onLine THEN MsgOffline
          ELSE "Failed to generate report. Please try again.")


\* C27: every failure of a network call, in any operation, is caught by the
\* operation that made the call: no request ends in a rejection nobody
\* handles.
C27_NoUnhandledRejection ==
  last.op # "report.unhandled"

-----------------------------------------------------------------------------
(* Properties of overlapping uploads and of the analyze button.            *)

\* C28: the upload page holds the summary and the file name of the upload
\* whose success response was handled last, whatever the order in which the
\* uploads were requested: when a success response has just been handled, the
\* summary and the name held are that upload's.
C28_LastHandledResponseWins ==
  \A k \in SummaryIds :
    UploadEnded /\ last.o = Ok200(k) /\ page = "upload" =>
      /\ currentSummary = k
      /\ currentFilename = FileOf(last.call.file).name

\* a.csv is dropped, then B.XLSX is selected while the first upload is
\* pending; the second upload succeeds first, the first one last: the page
\* holds the first upload's summary and name
C28_Witness ==
  /\ page = "upload"
  /\ UploadEnded /\ last.o = Ok200("S2")
  /\ last.call.id = 1 /\ last.call.file = 1
  /\ inputFiles = 2 /\ nextId = 3 /\ calls = {}
  /\ errorHidden
  /\ currentSummary = "S2" /\ currentFilename = "a.csv"



\* the analyze request ended with a 2xx answer {success: true, ...}
AnalyzeSucceeded ==
  /\ last.o.t = "response" /\ ResOk(last.o)
  /\ JSONParse(last.o.text).t = "object"
  /\ Truthy(JSONParse(last.o.text).success)

\* the upload requests of the analyze button in flight
AnalyzeUploads == {c \in calls : c.caller = "analyze"}

\* C29: a click on the analyze button with a summary and a file name held
\* leaves for /summary-view and uploads nothing; with none held and no file
\* selected it shows an error and sends nothing; otherwise it uploads the
\* selected file, and when that request has ended it leaves for /summary-view
\* exactly if the answer was {success: true}, and else stays with the error
\* shown and the loading indicator hidden.
C29_AnalyzeRedirectsOnlyOnSuccess ==
  /\ last.op = "analyzeClick" =>
       LET held == /\ last.call.before[1] \notin {"null", "undefined"}
                   /\ last.call.before[2] # "null"
       IN  CASE held -> page = "summary" /\ AnalyzeUploads = {}
             [] ~held /\ last.call.file = 0 ->
                  /\ page = "upload" /\ last.sent = 0
                  /\ ~errorHidden /\ errorText = MsgSelect
             [] OTHER ->
                  /\ page = "upload" /\ last.sent = 1 /\ errorHidden
                  /\ \E c \in AnalyzeUploads : c.file = last.call.file
  /\ last.op = "analyze" =>
       IF AnalyzeSucceeded THEN page = "summary"
       ELSE /\ page = "upload"
            /\ ~errorHidden /\ loadingHidden
            /\ last.shown

\* the upload of the analyze button is answered with a summary at its second
\* attempt, and the page leaves for /summary-view
C29_Witness ==
  /\ last.op = "analyze" /\ last.o = Ok200("S1")
  /\ last.call.attempt = 2
  /\ last.call.file = 1
  /\ page = "summary"


-----------------------------------------------------------------------------
(* Properties of the summary page's upload.                                *)

\* the /charts request that follows an upload of the summary page has ended
RefreshChartsEnded == last.op = "refresh" /\ last.call.caller = "refreshCharts"

\* outcome o of a /charts request is a failure: no 2xx answer that parses to
\* {success: true, ...}
ChartsFailed(o) ==
  ~(/\ o.t = "response" /\ ResOk(o)
    /\ JSONParse(o.text).t = "object" /\ Truthy(JSONParse(o.text).success))

\* C31: a failure of the /charts request (non-2xx, success: false, a body
\* that does not parse, a network error) does not make the upload fail:
\* the charts section is hidden, the status stays 'Analysis complete' without
\* the error styling, the download-cleaned button is revealed and
\* uploadFileAndRefresh returns the new summary.
C31_ChartsFailureKeepsUpload ==
  RefreshChartsEnded /\ ChartsFailed(last.o) =>
    /\ sp.chartsDisplay = "none"
    /\ sp.status = "Analysis complete" /\ ~sp.danger
    /\ sp.cleanedDisplay = "block"
    /\ last.res = Return(SummaryOf(last.call.arg))
    /\ ~last.shown
    /\ sp.tableRows = SummaryToRows(SummaryOf(last.call.arg))

\* the upload of a.csv is answered with summary S1, the /charts request with
\* a body that does not parse
C31_Witness ==
  /\ RefreshChartsEnded
  /\ last.o = Response(200, "OK", TextPlain)
  /\ last.call.arg = "S1" /\ last.call.file = 1
  /\ sp.chartsDisplay = "none"
  /\ sp.status = "Analysis complete"
  /\ sp.cleanedDisplay = "block"


-----------------------------------------------------------------------------
(* Properties of the state the upload page holds.                          *)

\* the summary a success body carries, by its identity
SummaryIn(text) ==
  CHOOSE k \in SummaryIds : text \in {OkText(k), "\"" \o OkText(k) \o "\""}

\* C32: on the upload page currentSummary and currentFilename are both null
\* or both set, and every write of either writes both from one upload: the
\* summary of that upload's success answer and the name of the file that
\* upload sent, whatever other uploads are in flight.
C32_SummaryAndNameFromOneUpload ==
  /\ [](page = "upload" => (currentSummary = "null" <=> currentFilename = "null"))
  /\ [][page = "upload" /\ page' = "upload" /\ Held' # Held =>
          /\ last'.op = "uploadFile" /\ last'.call.caller = "uploadFile"
          /\ last'.o.t = "response" /\ ResOk(last'.o)
          /\ currentSummary' = SummaryIn(last'.o.text)
          /\ currentFilename' = FileOf(last'.call.file).name]_vars

\* the upload of B.XLSX is answered with S1 while the upload of a.csv,
\* started before it, is still in flight
C32_Witness ==
  /\ page = "upload"
  /\ UploadEnded /\ last.o = Ok200("S1")
  /\ last.call.id = 2 /\ last.call.file = 2
  /\ \E c \in calls : c.caller = "uploadFile" /\ c.id = 1 /\ c.file = 1
  /\ currentSummary = "S1" /\ currentFilename = "B.XLSX"



\* C33: whenever the results panel of the upload page is shown, all of it
\* (cards, summary info, columns table, sample table) is the rendering of the
\* summary held in currentSummary.
C33_PanelShowsHeldSummary ==
  page = "upload" /\ ~resultsHidden =>
    /\ currentSummary \in SummaryIds
    /\ dom = FreshlyRendered(currentSummary)


\* the /upload requests of the upload page in flight
UploadsInFlight == {c \in calls : c.caller \in {"uploadFile", "analyze"}}

\* C34: on the upload page the loading indicator is shown whenever an
\* /upload request is in flight, and hidden whenever none is.
C34_LoadingWhileUploading ==
  page = "upload" => (~loadingHidden <=> UploadsInFlight # {})


\* the requests of an upload of the summary page in flight: /upload, and the
\* /charts request that follows it
RefreshInFlight == {c \in calls : c.caller \in {"refreshUpload", "refreshCharts"}}

\* C35: on the summary page the upload button is disabled exactly while its
\* upload, the /charts request that follows included, is in flight; whatever
\* the outcome, the button is enabled once the upload has ended; and a click
\* with no file selected sends no request, shows 'Please select a file' and
\* leaves the button enabled.
C35_ButtonDisabledWhileUploading ==
  page = "summary" =>
    /\ sp.disabled <=> RefreshInFlight # {}
    /\ last.op = "refresh" => ~sp.disabled
    /\ last.op = "uploadClick" /\ last.call.file = 0 =>
         /\ last.sent = 0 /\ RefreshInFlight = {}
         /\ sp.status = "Please select a file"
         /\ ~sp.disabled

\* the uploaded summary is empty, populateCards throws on it, and the button
\* is enabled again
C35_Witness ==
  /\ page = "summary"
  /\ last.op = "refresh" /\ last.call.caller = "refreshUpload"
  /\ last.o = Ok200("S4")
  /\ last.res = Return(JNull)
  /\ sp.danger /\ ~sp.disabled


-----------------------------------------------------------------------------
(* Properties of the statistics cells of the summary page.                 *)

\* the statistic name the summary supplies for column col: a number, or
\* undefined
Statistic(s, col, name) ==
  IF s.descriptive_stats.t = "object" /\ col \in DOMAIN s.descriptive_stats.m
       /\ name \in DOMAIN s.descriptive_stats.m[col].m
    THEN s.descriptive_stats.m[col].m[name]
  ELSE Undef

StatNames == <<"mean", "median", "std_dev">>

\* C36: in the column table of the summary page the mean, median and std_dev
\* cells of a column show the statistic with 2 decimals whenever the summary
\* supplies a number for it, 0 included, and 'N/A' exactly when it supplies
\* none.
C36_StatisticsShown ==
  \A k \in SummaryIds :
    RenderedOnSummaryPage(k) =>
      \A i \in DOMAIN sp.tableRows : \A j \in 1..3 :
        LET v == Statistic(SummaryOf(k), sp.tableRows[i][1], StatNames[j])
        IN  sp.tableRows[i][4 + j] =
              (IF v.t = "number" THEN ToString(v.n) \o ".00" ELSE "N/A")

-----------------------------------------------------------------------------
(* Properties of the helpers' timers.                                      *)

\* the calls the handler that ran last ended, or left at their end
EndedCall == IF last.call.caller \in HelperCallers THEN {last.call} ELSE {}

\* C37: while a call of a fetch helper is in flight, the one timer armed is
\* that of the attempt in progress: the timer of each earlier attempt was
\* cleared before the next attempt started; and once the call has returned
\* or thrown, no timer of it is armed.
C37_OneTimerPerAttempt ==
  /\ \A c \in calls : HasAbortSignal(c) => c.timers = {c.attempt}
  /\ \A c \in EndedCall : c.timers = {}

\* the second attempt of a call is in flight after the first one was aborted
\* by its timer: the first timer is gone and the second is armed
C37_Witness ==
  \E c \in calls :
    /\ c.caller = "direct" /\ c.retries = 2
    /\ c.attempt = 1 /\ c.prev = "abort"
    /\ c.timers = {1}

-----------------------------------------------------------------------------
(* Properties of the missing-values filter.                                *)

\* the missing-values filters, and the other filters, of a search list
MissingFilters(search) == SelectSeq(search, LAMBDA f : f.name = "missingFilter")
OtherFilters(search) == SelectSeq(search, LAMBDA f : f.name # "missingFilter")

\* C38: whatever values are typed into the missing-values input, the search
\* list of DataTables holds at most one missing-values filter; after an
\* input event it holds one with the maximum just entered, or none when the
\* input was emptied; and the filters others registered stay in the list, in
\* their order.
C38_OneMissingFilter ==
  /\ [](page = "summary" =>
          /\ Len(MissingFilters(sp.search)) <= 1
          /\ last.op = "filterMissing" =>
               MissingFilters(sp.search) =
                 (IF last.call.arg = "" THEN <<>>
                  ELSE <<SearchFilter("missingFilter", last.call.arg)>>))
  /\ [][page = "summary" /\ page' = "summary" =>
          OtherFilters(sp'.search) = OtherFilters(sp.search)]_vars

\* a maximum of 1 is entered after a maximum of 0: the list holds the other
\* filter and one missing-values filter, with maximum 1
C38_Witness ==
  /\ page = "summary"
  /\ nextId = 3
  /\ last.op = "filterMissing" /\ last.call.arg = "1"
  /\ sp.search = <<OtherFilter, SearchFilter("missingFilter", "1")>>
  /\ sp.tableRows # <<>>
  /\ DrawnRows(sp) = ShownRows(sp)

=============================================================================
